---- MODULE Spec2Model ----
(***************************************************************************)
(* Model of the GRES selection filter (gres_select_filter.c):              *)
(*   gres_select_filter_remove_unusable()  - feasibility filter            *)
(*   gres_select_filter_select_and_set()   - final GRES selection          *)
(* Bitmaps are sets of indices, NULL arrays are flagged by a has_* field,  *)
(* list and array positions are 0-based as in the source.                  *)
(***************************************************************************)
EXTENDS Integers, Sequences, FiniteSets, TLC

(***************************************************************************)
(* Bounds of the model                                                     *)
(***************************************************************************)
\* sockets per node
NumSock == 2
\* GRES units (bits) per node and kind
NumGres == 3
\* nodes in the job's allocation
NumNodes == 2
\* largest requested counter (gres_per_node/socket/task/job)
MaxReq == 3
\* largest cnt_by_sock[s] entry of a candidate node given to the filter
MaxSockCnt == 2

(***************************************************************************)
(* Program constants                                                       *)
(***************************************************************************)
ANY_SOCK_TEST == -1
NO_VAL16 == 65534
\* uint16_t arithmetic (cpus_per_gres, avail_gpus, near_gpus)
UINT16_MOD == 65536
\* Stand-in for 2^64: TLC integers are 32 bit.  Every other quantity of the
\* model stays below 2^16, so order and wrap-around are those of uint64_t.
UINT64_MOD == 1073741824
\* NO_VAL64 (0xfffffffffffffffe) on the same scale
NO_VAL64 == 1073741822
\* NO_VAL (0xfffffffe), only ever compared for equality
NO_VAL == 2147483646
\* saturation value of near_gpus
NEAR_GPUS_MAX == 255

Sockets == 0 .. (NumSock - 1)
Units == 0 .. (NumGres - 1)
Nodes == 0 .. (NumNodes - 1)

Min(a, b) == IF a < b THEN a ELSE b
Max(a, b) == IF a > b THEN a ELSE b

\* uint64_t result of an expression
U64(x) == x % UINT64_MOD

RECURSIVE SumOver(_, _)
SumOver(f, S) ==
    IF S = {} THEN 0
    ELSE LET x == CHOOSE y \in S : TRUE IN f[x] + SumOver(f, S \ {x})

VARIABLES
    gres_js,          \* per kind: the job's request and its outputs
    gres_ns,          \* per node and kind: node GRES state
    sock_gres_list,   \* per node: list of sock_gres records
    job,              \* job record, job resources, multi-core options, policy
    flt,              \* locals of gres_select_filter_remove_unusable
    sel,              \* locals of gres_select_filter_select_and_set
    entry             \* sock_gres_list as it was on entry (history)

vars == <<gres_js, gres_ns, sock_gres_list, job, flt, sel, entry>>

(***************************************************************************)
(* gres_select_filter_remove_unusable                                      *)
(***************************************************************************)

\* avail_cores_by_sock[s]: socket s has a set bit in core_bitmap; the scan
\* stops at the first index beyond the bitmap
BuildAvailCoresBySock(core_bitmap, lim, sockets, cores_per_sock) ==
    LET stop == { s \in 0 .. (sockets - 1) :
                    \E c \in 0 .. (cores_per_sock - 1) :
                        /\ (s * cores_per_sock) + c >= lim
                        /\ \A d \in 0 .. (c - 1) :
                              ((s * cores_per_sock) + d) \notin core_bitmap }
        first == IF stop = {} THEN sockets
                 ELSE CHOOSE s \in stop : \A t \in stop : s <= t
    IN [s \in 0 .. (sockets - 1) |->
            /\ s <= first
            /\ \E c \in 0 .. (cores_per_sock - 1) :
                  /\ (s * cores_per_sock) + c < lim
                  /\ ((s * cores_per_sock) + c) \in core_bitmap]

\* _set_max_node_gres: the new max_node_gres, and whether it was set
SetMaxNodeGresHit(max_node_gres, val) ==
    (val # 0) /\ ((max_node_gres = 0) \/ (max_node_gres > val))

SetMaxNodeGres(max_node_gres, val) ==
    IF SetMaxNodeGresHit(max_node_gres, val) THEN val ELSE max_node_gres

\* min_gres of one request
MinGresNoFloor(sg, js, in) ==
    LET m0 == IF in.whole_node THEN sg.total_cnt ELSE js.gres_per_node
        ps == IF in.sock_per_node # NO_VAL
              THEN U64(js.gres_per_socket * in.sock_per_node)
              ELSE js.gres_per_socket
        pt == IF in.task_per_node # NO_VAL16
              THEN U64(js.gres_per_task * in.task_per_node)
              ELSE js.gres_per_task
    IN Max(m0, Max(ps, pt))

MinGres(sg, js, in) ==
    LET m0 == IF in.whole_node THEN sg.total_cnt
              ELSE IF js.gres_per_node # 0 THEN js.gres_per_node
              ELSE 1
        ps == IF in.sock_per_node # NO_VAL
              THEN U64(js.gres_per_socket * in.sock_per_node)
              ELSE js.gres_per_socket
        m1 == IF js.gres_per_socket # 0 THEN Max(m0, ps) ELSE m0
        pt == IF in.task_per_node # NO_VAL16
              THEN U64(js.gres_per_task * in.task_per_node)
              ELSE js.gres_per_task
    IN IF js.gres_per_task # 0 THEN Max(m1, pt) ELSE m1

\* cpus_per_gres of one request (uint16_t)
FilterCpusPerGres(js, in) ==
    IF js.cpus_per_gres # 0 THEN js.cpus_per_gres
    ELSE IF (js.ntasks_per_gres # 0) /\ (js.ntasks_per_gres # NO_VAL16)
         THEN (js.ntasks_per_gres * in.cpus_per_task) % UINT16_MOD
    ELSE js.def_cpus_per_gres

\* mem_per_gres of one request
FilterMemPerGres(js) ==
    IF js.mem_per_gres # 0 THEN js.mem_per_gres ELSE js.def_mem_per_gres

\* first CPU check: max_cpus / cpus_per_gres against the counters
InsufficientCpusNoPerNode(js, in, cpus_per_gres) ==
    /\ cpus_per_gres # 0
    /\ LET max_gres == in.max_cpus \div cpus_per_gres
       IN \/ max_gres = 0
          \/ js.gres_per_task > max_gres
          \/ js.gres_per_socket > max_gres

InsufficientCpus(js, in, cpus_per_gres) ==
    /\ cpus_per_gres # 0
    /\ LET max_gres == in.max_cpus \div cpus_per_gres
       IN \/ max_gres = 0
          \/ js.gres_per_node > max_gres
          \/ js.gres_per_task > max_gres
          \/ js.gres_per_socket > max_gres

\* the enforce_binding pruning of cnt_by_sock and total_cnt
PruneBySockKeepTotal(sg, acbs, sockets) ==
    [sg EXCEPT !.cnt_by_sock = [s \in DOMAIN sg.cnt_by_sock |->
                   IF (s < sockets) /\ ~acbs[s] THEN 0 ELSE sg.cnt_by_sock[s]]]

PruneBySock(sg, acbs, sockets) ==
    LET dead == { s \in 0 .. (sockets - 1) : ~acbs[s] }
    IN [sg EXCEPT
          !.total_cnt = U64(@ - SumOver(sg.cnt_by_sock, dead)),
          !.cnt_by_sock = [s \in DOMAIN sg.cnt_by_sock |->
                              IF s \in dead THEN 0 ELSE sg.cnt_by_sock[s]]]

\* near_gres_cnt of one request, after any pruning
NearGresCnt(sg, acbs, sockets, enforce_binding) ==
    IF sg.has_cnt_by_sock /\ ~enforce_binding
    THEN U64(sg.total_cnt -
             SumOver(sg.cnt_by_sock, { s \in 0 .. (sockets - 1) : ~acbs[s] }))
    ELSE sg.total_cnt

\* whether max_gres is recomputed from the core bitmap
RecomputeMaxGres(js, in, cpus_per_gres) ==
    (cpus_per_gres # 0) /\ ((js.ntasks_per_gres = NO_VAL16) \/ ~in.whole_node)

\* the final count test of one request
BelowMinGres(sg, min_gres) ==
    \/ sg.total_cnt < min_gres
    \/ (sg.max_node_gres # 0) /\ (sg.max_node_gres < min_gres)

\* whether the memory checks apply: NO_VAL64 is set by the caller when
\* memory is not tracked
MemCheckedNoSentinel(in, mem_per_gres) == mem_per_gres # 0

MemChecked(in, mem_per_gres) ==
    (mem_per_gres # 0) /\ (in.avail_mem # NO_VAL64)

\* near_gpus after adding one request's near count, saturating
AddNearGpusNoSaturation(near_gpus, near_gres_cnt) ==
    (near_gpus + near_gres_cnt) % UINT16_MOD

AddNearGpus(near_gpus, near_gres_cnt) ==
    IF near_gpus + near_gres_cnt < NEAR_GPUS_MAX
    THEN (near_gpus + near_gres_cnt) % UINT16_MOD
    ELSE NEAR_GPUS_MAX

\* the near count passed on as it was computed
CapNearGresNever(max_node_gres, near_gres_cnt) == near_gres_cnt

\* the near count of a sharing kind is lowered to max_node_gres when that is
\* set and smaller
CapNearGres(max_node_gres, near_gres_cnt) ==
    IF (max_node_gres # 0) /\ (max_node_gres < near_gres_cnt)
    THEN max_node_gres ELSE near_gres_cnt

\* One iteration of the while loop over sock_gres_list: the record as it is
\* left, rc, and the updated avail_gpus / near_gpus.
FilterIter(sg, js, in, avail_gpus, near_gpus) ==
    LET min_gres == MinGres(sg, js, in)
        cpus_per_gres == FilterCpusPerGres(js, in)
        mem_per_gres == FilterMemPerGres(js)
        mem_on == MemChecked(in, mem_per_gres)
        reject(s) == [sg |-> s, rc |-> -1,
                      avail_gpus |-> avail_gpus, near_gpus |-> near_gpus]
        acbs == BuildAvailCoresBySock(in.core_bitmap, in.core_size,
                                      in.sockets, in.cores_per_sock)
    IN
    IF InsufficientCpus(js, in, cpus_per_gres) THEN reject(sg)
    ELSE IF mem_on /\ (mem_per_gres > in.avail_mem) THEN reject(sg)
    ELSE
    LET sg1 == IF mem_on
               THEN [sg EXCEPT !.max_node_gres = in.avail_mem \div mem_per_gres]
               ELSE sg
        sg2 == IF sg1.has_cnt_by_sock /\ in.enforce_binding
               THEN PruneBySock(sg1, acbs, in.sockets)
               ELSE sg1
        near0 == NearGresCnt(sg2, acbs, in.sockets, in.enforce_binding)
        sg3 == IF in.whole_node THEN sg2
               ELSE IF SetMaxNodeGresHit(sg2.max_node_gres, js.gres_per_node)
               THEN [sg2 EXCEPT !.max_node_gres =
                         SetMaxNodeGres(sg2.max_node_gres, js.gres_per_node)]
               ELSE [sg2 EXCEPT !.max_node_gres =
                         SetMaxNodeGres(sg2.max_node_gres, js.gres_per_job)]
        recompute == RecomputeMaxGres(js, in, cpus_per_gres)
        max_gres == IF recompute
                    THEN (Cardinality(in.core_bitmap) * in.cpus_per_core)
                            \div cpus_per_gres
                    ELSE 0
    IN
    IF recompute /\ (max_gres = 0) THEN reject(sg3)
    ELSE
    LET sg4 == IF recompute /\ ((sg3.max_node_gres = 0) \/
                                (sg3.max_node_gres > max_gres))
               THEN [sg3 EXCEPT !.max_node_gres = max_gres]
               ELSE sg3
        sg5 == IF mem_on
               THEN [sg4 EXCEPT !.total_cnt =
                         Min(@, in.avail_mem \div mem_per_gres)]
               ELSE sg4
    IN
    IF BelowMinGres(sg5, min_gres) THEN reject(sg5)
    ELSE IF js.plugin_sharing
    THEN LET near1 == CapNearGres(sg5.max_node_gres, near0)
         IN [sg |-> sg5, rc |-> 0,
             avail_gpus |-> (avail_gpus + sg5.total_cnt) % UINT16_MOD,
             near_gpus |-> AddNearGpus(near_gpus, near1)]
    ELSE [sg |-> sg5, rc |-> 0,
          avail_gpus |-> avail_gpus, near_gpus |-> near_gpus]

\* the result so far after the iteration on record pos gave it
FilterStep(r, pos, it) ==
    [list |-> [r.list EXCEPT ![pos + 1] = it.sg], rc |-> it.rc,
     avail_gpus |-> it.avail_gpus, near_gpus |-> it.near_gpus]

\* the while loop from record pos on: the list as it is left, rc, avail_gpus
\* and near_gpus
RECURSIVE FilterLoop(_, _, _, _)
FilterLoop(js_of, in, r, pos) ==
    IF (pos >= Len(r.list)) \/ (r.rc = -1) THEN r
    ELSE FilterLoop(js_of, in,
             FilterStep(r, pos,
                 FilterIter(r.list[pos + 1], js_of[r.list[pos + 1].js], in,
                            r.avail_gpus, r.near_gpus)),
             pos + 1)

\* the whole function on a list
FilterRun(list, js_of, in) ==
    IF (~in.has_core_bitmap) \/ (Len(list) = 0)
    THEN [list |-> list, rc |-> 0, avail_gpus |-> 0, near_gpus |-> 0]
    ELSE FilterLoop(js_of, in,
                    [list |-> list, rc |-> 0, avail_gpus |-> 0, near_gpus |-> 0],
                    0)

\* entry of the function: outputs cleared; nothing to do for an empty list
FilterEnter ==
    /\ flt.pc = "enter"
    /\ flt' = [flt EXCEPT
                 !.avail_gpus = 0, !.near_gpus = 0, !.rc = 0, !.pos = 0,
                 !.pc = IF (~job.filter.has_core_bitmap) \/
                           (Len(sock_gres_list[0]) = 0)
                        THEN "returned" ELSE "loop"]
    /\ UNCHANGED <<gres_js, gres_ns, sock_gres_list, job, sel, entry>>

\* one pass of the while loop
FilterNext ==
    /\ flt.pc = "loop"
    /\ flt.pos < Len(sock_gres_list[0])
    /\ LET sg == sock_gres_list[0][flt.pos + 1]
           r == FilterIter(sg, gres_js[sg.js], job.filter,
                           flt.avail_gpus, flt.near_gpus)
       IN /\ sock_gres_list' = [sock_gres_list EXCEPT ![0][flt.pos + 1] = r.sg]
          /\ flt' = [flt EXCEPT
                       !.rc = r.rc,
                       !.avail_gpus = r.avail_gpus,
                       !.near_gpus = r.near_gpus,
                       !.pos = @ + 1,
                       !.pc = IF r.rc = -1 THEN "exit" ELSE "loop"]
    /\ UNCHANGED <<gres_js, gres_ns, job, sel, entry>>

\* the loop ended (list exhausted or break): iterator destroyed, rc returned
FilterReturn ==
    /\ \/ flt.pc = "exit"
       \/ (flt.pc = "loop") /\ (flt.pos >= Len(sock_gres_list[0]))
    /\ flt' = [flt EXCEPT !.pc = "returned"]
    /\ UNCHANGED <<gres_js, gres_ns, sock_gres_list, job, sel, entry>>

NextFilter == FilterEnter \/ FilterNext \/ FilterReturn

(***************************************************************************)
(* Inputs of the filter                                                    *)
(***************************************************************************)

\* a job GRES request (gres_js) with its outputs not yet created
NewJs(per_node, per_socket, per_task, per_job, cpg, ntg, dcpg, mpg, dmpg, type_id, shared, sharing) ==
    [gres_per_node |-> per_node, gres_per_socket |-> per_socket,
     gres_per_task |-> per_task, gres_per_job |-> per_job,
     cpus_per_gres |-> cpg, ntasks_per_gres |-> ntg,
     def_cpus_per_gres |-> dcpg,
     mem_per_gres |-> mpg, def_mem_per_gres |-> dmpg,
     type_id |-> type_id,
     config_shared |-> shared, plugin_sharing |-> sharing,
     total_gres |-> 0, total_node_cnt |-> 0,
     has_cnt_node_select |-> FALSE,
     gres_cnt_node_select |-> [n \in Nodes |-> 0],
     bit_select_nodes |-> {},
     gres_bit_select |-> [n \in Nodes |-> {}],
     per_bit_nodes |-> {},
     gres_per_bit_select |-> [n \in Nodes |-> [t \in Units |-> 0]]]

\* counters of a request given to the filter: gres_per_node alone, or one
\* of the other three, per socket and per task also with gres_per_node
FilterCounters ==
    { c \in [node : {0, 1, MaxReq}, socket : 0 .. 1, task : 0 .. 1,
             job : {0, MaxReq}] :
        /\ c.node + c.socket + c.task + c.job > 0
        /\ (c.job # 0) => (c.node = 0)
        /\ Cardinality({ f \in {"socket", "task", "job"} : c[f] # 0 }) <= 1 }

\* <<cpus_per_gres, ntasks_per_gres, def_cpus_per_gres>>
FilterCpuSpecs ==
    { <<0, 0, 0>>, <<1, 0, 0>>, <<0, 2, 1>>, <<0, NO_VAL16, 2>> }

\* <<mem_per_gres, def_mem_per_gres>>
FilterMemSpecs == { <<0, 0>>, <<1, 0>>, <<0, 3>> }

\* a sock_gres record of a candidate node: the counts by socket plus the
\* units without socket affinity make up total_cnt
FilterSockGres(k) ==
    { [js |-> k, sock_cnt |-> NumSock, max_node_gres |-> 0,
       has_cnt_by_sock |-> h, cnt_by_sock |-> c,
       total_cnt |-> SumOver(c, Sockets) + a] :
        h \in BOOLEAN, c \in [Sockets -> {0, MaxSockCnt}], a \in {0, 1} }

FilterArgs ==
    { [has_core_bitmap |-> TRUE, avail_mem |-> am, max_cpus |-> mc,
       enforce_binding |-> eb, core_bitmap |-> cb,
       core_size |-> NumSock, sockets |-> NumSock, cores_per_sock |-> 1,
       cpus_per_core |-> 1, sock_per_node |-> spn.s, task_per_node |-> spn.t,
       cpus_per_task |-> 1, whole_node |-> wn] :
        am \in {NO_VAL64, 2}, mc \in {1, 2}, eb \in BOOLEAN,
        cb \in SUBSET Sockets,
        spn \in { [s |-> NO_VAL, t |-> NO_VAL16], [s |-> 2, t |-> 2] },
        wn \in BOOLEAN }

FltInit == [pc |-> "enter", pos |-> 0, rc |-> 0,
            avail_gpus |-> 0, near_gpus |-> 0]

\* a node with one request
InitFilterOne ==
    /\ \E c \in FilterCounters, cpu \in FilterCpuSpecs, mem \in FilterMemSpecs,
          sharing \in BOOLEAN :
          gres_js = <<NewJs(c.node, c.socket, c.task, c.job,
                            cpu[1], cpu[2], cpu[3], mem[1], mem[2],
                            0, FALSE, sharing)>>
    /\ \E sg \in FilterSockGres(1) : sock_gres_list = [n \in {0} |-> <<sg>>]
    /\ job \in { [filter |-> a] : a \in FilterArgs }

\* a node with two requests: a sharing kind per node, then a kind per node
\* or per job
InitFilterTwo ==
    /\ \E n1 \in 1 .. 2, mem \in FilterMemSpecs, c \in FilterCounters,
          cpg \in 0 .. 1 :
          /\ c.socket + c.task = 0
          /\ gres_js = <<NewJs(n1, 0, 0, 0, 0, 0, 0, mem[1], mem[2],
                               0, FALSE, TRUE),
                         NewJs(c.node, 0, 0, c.job, cpg, 0, 0, 0, 0,
                               0, FALSE, FALSE)>>
    /\ \E sg1 \in FilterSockGres(1), sg2 \in FilterSockGres(2) :
          /\ sg1.has_cnt_by_sock /\ sg2.has_cnt_by_sock
          /\ sg2.total_cnt = SumOver(sg2.cnt_by_sock, Sockets)
          /\ sock_gres_list = [n \in {0} |-> <<sg1, sg2>>]
    /\ job \in { [filter |-> a] : a \in { b \in FilterArgs :
                    (b.max_cpus = 2) /\ (b.sock_per_node = NO_VAL) /\
                    ~b.whole_node } }

\* a node with three sharing kinds of many units each, requested per node
InitFilterLarge ==
    /\ \E per_node \in {1, 100} :
          gres_js = [k \in 1 .. 3 |->
                        NewJs(per_node, 0, 0, 0, 0, 0, 0, 0, 0, 0, FALSE, TRUE)]
    /\ \E c \in [1 .. 3 -> [Sockets -> {0, 100}]], a \in [1 .. 3 -> {0, 55}] :
          sock_gres_list =
              [n \in {0} |->
                  [k \in 1 .. 3 |->
                      [js |-> k, sock_cnt |-> NumSock, max_node_gres |-> 0,
                       has_cnt_by_sock |-> TRUE, cnt_by_sock |-> c[k],
                       total_cnt |-> SumOver(c[k], Sockets) + a[k]]]]
    /\ job \in { [filter |-> a] : a \in { b \in FilterArgs :
                    (b.max_cpus = 2) /\ (b.sock_per_node = NO_VAL) /\
                    (b.avail_mem = NO_VAL64) } }

InitFilter ==
    /\ InitFilterOne \/ InitFilterTwo \/ InitFilterLarge
    /\ gres_ns = <<>>
    /\ flt = FltInit
    /\ sel = [pc |-> "idle"]
    /\ entry = sock_gres_list

SpecFilter == InitFilter /\ [][NextFilter]_vars

(***************************************************************************)
(* Topology pickers (non-shared GRES)                                      *)
(***************************************************************************)

\* permutations of the unit indices, as arrays index -> unit
UnitPerms == { p \in [Units -> Units] : \A a, b \in Units : (p[a] = p[b]) => (a = b) }

\* the outcomes of qsort() with _compare_gres_by_links: ascending links_cnt,
\* entries that compare equal in any order
SortByLinks(links_cnt) ==
    { p \in UnitPerms :
        \A a, b \in Units : (a < b) => (links_cnt[p[a]] <= links_cnt[p[b]]) }

\* the links_cnt update of _update_and_sort_by_links for the unit just picked
AddLinks(links_cnt, gres_inx, ns) ==
    [l \in Units |->
        IF (l = gres_inx) \/ (l \in ns.gres_bit_alloc)
        THEN links_cnt[l]
        ELSE links_cnt[l] + ns.links_cnt[gres_inx][l]]

\* bits of a socket, or of ANY_SOCK_TEST; a NULL bitmap is the empty set
SockBits(sg, socket_index) ==
    IF socket_index = ANY_SOCK_TEST THEN sg.bits_any_sock
    ELSE sg.bits_by_sock[socket_index]

\* the loop index after a pick: "i = 0" followed by the loop's "i++" when the
\* candidates were re-sorted
NextScanIndex(i, resorted) == IF resorted THEN 1 ELSE i + 1

\* a unit _pick_gres_topo passes over: not on this socket, or already
\* chosen for the job on this node, or allocated to another job
PickSkipsNoAllocTest(sock_bits, ns, js, n, g) ==
    (g \notin sock_bits) \/ (g \in js.gres_bit_select[n])

PickSkips(sock_bits, ns, js, n, g) ==
    \/ g \notin sock_bits
    \/ g \in js.gres_bit_select[n]
    \/ g \in ns.gres_bit_alloc

\* the for loop of _pick_gres_topo from index i on; st holds the job state
\* and the sort scratch; the result is the set of possible final states
RECURSIVE PickLoop(_, _, _, _, _, _, _)
PickLoop(sock_bits, ns, n, st, use_links, i, still) ==
    IF (i >= NumGres) \/ (still = 0)
    THEN { [st EXCEPT !.still = still] }
    ELSE
    LET g == IF use_links THEN st.sorted_gres[i] ELSE i IN
    IF PickSkips(sock_bits, ns, st.js, n, g)
    THEN PickLoop(sock_bits, ns, n, st, use_links, i + 1, still)
    ELSE
    LET js1 == [st.js EXCEPT !.gres_bit_select[n] = @ \cup {g},
                             !.gres_cnt_node_select[n] = @ + 1]
    IN IF use_links
       THEN LET l2 == AddLinks(st.links_cnt, g, ns)
            IN UNION { PickLoop(sock_bits, ns, n,
                                [st EXCEPT !.js = js1, !.links_cnt = l2,
                                           !.sorted_gres = p,
                                           !.order = Append(@, g)],
                                use_links, NextScanIndex(i, TRUE), still - 1) :
                       p \in SortByLinks(l2) }
       ELSE PickLoop(sock_bits, ns, n,
                     [st EXCEPT !.js = js1, !.order = Append(@, g)],
                     use_links, NextScanIndex(i, FALSE), still - 1)

\* _pick_gres_topo: the possible states after the call; field got is the
\* number of units picked by this call
PickGresTopo(sg, ns, n, st, gres_needed, socket_index, use_links) ==
    IF SockBits(sg, socket_index) = {}
    THEN { [st EXCEPT !.got = 0] }
    ELSE { [r EXCEPT !.got = gres_needed - r.still] :
             r \in PickLoop(SockBits(sg, socket_index), ns, n, st,
                            use_links /\ st.has_links, 0, gres_needed) }

\* scratch of a picker: links_cnt / sorted_gres are allocated when the node
\* has link information for every unit
Scratch(js, ns, need) ==
    [js |-> js,
     has_links |-> (ns.link_len = NumGres),
     links_cnt |-> [g \in Units |-> 0],
     sorted_gres |-> [g \in Units |-> g],
     need |-> need, alloc |-> 0, still |-> 0, got |-> 0,
     \* history: the units picked through this scratch, in order
     order |-> <<>>]

\* a pick that is charged to st.need
PickNeeded(sg, ns, n, st, amount, socket_index) ==
    { [r EXCEPT !.need = @ - r.got] :
        r \in PickGresTopo(sg, ns, n, st, amount, socket_index, TRUE) }

\* a socket loop of _set_node_bits from socket s on: sockets whose use flag
\* equals want_used are asked for one unit (one) or all still needed
RECURSIVE NodeBitsLoop(_, _, _, _, _, _, _, _)
NodeBitsLoop(sg, ns, n, used_sock, st, s, want_used, one) ==
    IF (s >= sg.sock_cnt) \/ (st.need = 0) THEN {st}
    ELSE IF (used_sock[s] # 0) # want_used
    THEN NodeBitsLoop(sg, ns, n, used_sock, st, s + 1, want_used, one)
    ELSE UNION { NodeBitsLoop(sg, ns, n, used_sock, r, s + 1, want_used, one) :
                 r \in PickNeeded(sg, ns, n, st,
                                  IF one THEN 1 ELSE st.need, s) }

\* _set_node_bits: the possible job states after the call
SetNodeBits(sg, ns, n, js, used_sock) ==
    LET any1(st) == IF st.need # 0
                    THEN PickNeeded(sg, ns, n, st, 1, ANY_SOCK_TEST)
                    ELSE {st}
        anyN(st) == IF st.need # 0
                    THEN PickNeeded(sg, ns, n, st, st.need, ANY_SOCK_TEST)
                    ELSE {st}
        p1(st) == NodeBitsLoop(sg, ns, n, used_sock, st, 0, TRUE, TRUE)
        p2(st) == NodeBitsLoop(sg, ns, n, used_sock, st, 0, TRUE, FALSE)
        p3(st) == NodeBitsLoop(sg, ns, n, used_sock, st, 0, FALSE, FALSE)
        s0 == { Scratch(js, ns, js.gres_per_node) }
        s1 == UNION { p1(st) : st \in s0 }
        s2 == UNION { any1(st) : st \in s1 }
        s3 == UNION { p2(st) : st \in s2 }
        s4 == UNION { anyN(st) : st \in s3 }
        s5 == UNION { p3(st) : st \in s4 }
    IN { st.js : st \in s5 }

\* free units of socket s: bits_by_sock[s] less those in gres_bit_alloc
FreeOnSock(sg, ns, s) ==
    Cardinality(sg.bits_by_sock[s]) -
    Cardinality(sg.bits_by_sock[s] \cap ns.gres_bit_alloc)

\* _set_sock_bits, too few sockets in the allocation: unused sockets with
\* enough free units are elected until sockets_per_node is reached
RECURSIVE ElectSockets(_, _, _, _, _, _, _)
ElectSockets(sg, ns, js, sockets_per_node, used_sock, used_sock_cnt, s) ==
    IF s >= sg.sock_cnt THEN used_sock
    ELSE IF (used_sock[s] # 0) \/ (sg.bits_by_sock[s] = {})
    THEN ElectSockets(sg, ns, js, sockets_per_node, used_sock,
                      used_sock_cnt, s + 1)
    ELSE
    LET free == FreeOnSock(sg, ns, s) IN
    IF (free = 0) \/ (free < js.gres_per_socket)
    THEN ElectSockets(sg, ns, js, sockets_per_node, used_sock,
                      used_sock_cnt, s + 1)
    ELSE IF used_sock_cnt + 1 = sockets_per_node
    THEN [used_sock EXCEPT ![s] = free]
    ELSE ElectSockets(sg, ns, js, sockets_per_node,
                      [used_sock EXCEPT ![s] = free], used_sock_cnt + 1, s + 1)

\* _set_sock_bits, "Exclude sockets with low GRES counts": while
\* sockets_per_node > used_sock_cnt the flagged socket with the lowest count
\* (the highest index among equals) is dropped
RECURSIVE DropLowSockets(_, _, _, _)
DropLowSockets(sg, sockets_per_node, used_sock, used_sock_cnt) ==
    IF ~(sockets_per_node > used_sock_cnt) THEN used_sock
    ELSE
    LET flagged == { s \in 0 .. (sg.sock_cnt - 1) : used_sock[s] # 0 } IN
    IF flagged = {} THEN used_sock
    ELSE LET low == CHOOSE s \in flagged :
                      \A t \in flagged :
                          \/ used_sock[s] < used_sock[t]
                          \/ (used_sock[s] = used_sock[t]) /\ (s >= t)
         IN DropLowSockets(sg, sockets_per_node,
                           [used_sock EXCEPT ![low] = 0], used_sock_cnt - 1)

\* _set_sock_bits: the used_sock array the picks are made for
ReshapeUsedSock(sg, ns, js, mc, used_cores_on_sock, used_sock_cnt) ==
    IF ~( /\ mc.sockets_per_node # 0
          /\ mc.sockets_per_node # used_sock_cnt
          /\ ns.has_bit_alloc
          /\ \E s \in 0 .. (sg.sock_cnt - 1) : sg.bits_by_sock[s] # {} )
    THEN used_cores_on_sock
    ELSE IF mc.sockets_per_node > used_sock_cnt
    THEN ElectSockets(sg, ns, js, mc.sockets_per_node, used_cores_on_sock,
                      used_sock_cnt, 0)
    ELSE
    LET counted == { s \in 0 .. (sg.sock_cnt - 1) :
                       (used_cores_on_sock[s] # 0) /\ (sg.bits_by_sock[s] # {}) }
        used1 == [s \in DOMAIN used_cores_on_sock |->
                     IF s \in counted THEN FreeOnSock(sg, ns, s)
                     ELSE used_cores_on_sock[s]]
        cnt1 == used_sock_cnt -
                Cardinality({ s \in counted : FreeOnSock(sg, ns, s) = 0 })
    IN DropLowSockets(sg, mc.sockets_per_node, used1, cnt1)

\* the socket loop of _set_sock_bits from socket s on
RECURSIVE SockBitsLoop(_, _, _, _, _, _)
SockBitsLoop(sg, ns, n, used_sock, st, s) ==
    IF s >= sg.sock_cnt THEN {st}
    ELSE IF used_sock[s] = 0
    THEN SockBitsLoop(sg, ns, n, used_sock, st, s + 1)
    ELSE
    LET st0 == [st EXCEPT !.need = st.js.gres_per_socket]
        top(r) == IF r.need # 0
                  THEN PickNeeded(sg, ns, n, r, r.need, ANY_SOCK_TEST)
                  ELSE {r}
    IN UNION { SockBitsLoop(sg, ns, n, used_sock, r, s + 1) :
               r \in UNION { top(r0) :
                              r0 \in PickNeeded(sg, ns, n, st0, st0.need, s) } }

\* _set_sock_bits: the possible job states after the call
SetSockBits(sg, ns, n, js, mc, used_cores_on_sock, used_sock_cnt) ==
    LET used_sock == ReshapeUsedSock(sg, ns, js, mc, used_cores_on_sock,
                                     used_sock_cnt)
    IN { st.js : st \in SockBitsLoop(sg, ns, n, used_sock,
                                     Scratch(js, ns, 0), 0) }

\* _get_task_cnt_node
GetTaskCntNode(has_tasks, tasks_per_socket, sock_cnt) ==
    IF ~has_tasks THEN 1
    ELSE SumOver(tasks_per_socket, 0 .. (sock_cnt - 1))

\* first loop of _set_task_bits: sockets with tasks
RECURSIVE TaskBitsLoop1(_, _, _, _, _, _)
TaskBitsLoop1(sg, ns, n, tasks_per_socket, st, s) ==
    IF s >= sg.sock_cnt THEN {st}
    ELSE IF tasks_per_socket[s] = 0
    THEN TaskBitsLoop1(sg, ns, n, tasks_per_socket, st, s + 1)
    ELSE UNION { TaskBitsLoop1(sg, ns, n, tasks_per_socket, r, s + 1) :
                 r \in PickNeeded(sg, ns, n, st,
                                  Min(st.need, tasks_per_socket[s] *
                                               st.js.gres_per_task), s) }

\* last loop of _set_task_bits: every socket while units are needed
RECURSIVE TaskBitsLoop2(_, _, _, _, _)
TaskBitsLoop2(sg, ns, n, st, s) ==
    IF (s >= sg.sock_cnt) \/ (st.need = 0) THEN {st}
    ELSE UNION { TaskBitsLoop2(sg, ns, n, r, s + 1) :
                 r \in PickNeeded(sg, ns, n, st, st.need, s) }

\* _set_task_bits: the possible job states after the call
SetTaskBits(sg, ns, n, js, has_tasks, tasks_per_socket) ==
    IF ~has_tasks THEN {js}
    ELSE
    LET need == GetTaskCntNode(has_tasks, tasks_per_socket, sg.sock_cnt) *
                js.gres_per_task
        l1(st) == TaskBitsLoop1(sg, ns, n, tasks_per_socket, st, 0)
        any(st) == IF st.need # 0
                   THEN PickNeeded(sg, ns, n, st, st.need, ANY_SOCK_TEST)
                   ELSE {st}
        l2(st) == TaskBitsLoop2(sg, ns, n, st, 0)
        s1 == l1(Scratch(js, ns, need))
        s2 == UNION { any(st) : st \in s1 }
        s3 == UNION { l2(st) : st \in s2 }
    IN { st.js : st \in s3 }

(***************************************************************************)
(* By-job selection                                                        *)
(***************************************************************************)

\* MIN(max_gres, cap) of _set_job_bits1: max_gres is an int, cap an unsigned
\* int, so the comparison is unsigned and a negative max_gres is the larger
MinIntUnsigned(max_gres, cap) ==
    IF max_gres < 0 THEN cap ELSE Min(max_gres, cap)

\* cpus_per_gres as _set_job_bits1 derives it (uint16_t)
JobCpusPerGres(js, mc) ==
    IF js.cpus_per_gres # 0 THEN js.cpus_per_gres
    ELSE IF (js.ntasks_per_gres # 0) /\ (js.ntasks_per_gres # NO_VAL16)
         THEN (js.ntasks_per_gres * mc.cpus_per_task) % UINT16_MOD
    ELSE 0

\* max_gres of _set_job_bits1
JobMaxGres(js, mc, rem_nodes, cpus_per_core, total_cores) ==
    LET m0 == js.gres_per_job - js.total_gres - (rem_nodes - 1)
        cpg == JobCpusPerGres(js, mc)
    IN IF cpg # 0
       THEN MinIntUnsigned(m0, (total_cores * cpus_per_core) \div cpg)
       ELSE m0

\* a pick_gres without the floor of one unit
JobPickGresNoFloor(max_gres, ns) ==
    IF (max_gres > 1) /\ (ns.link_len = NumGres) THEN NO_VAL16
    ELSE max_gres

\* pick_gres of _set_job_bits1
JobPickGres(max_gres, ns) ==
    IF (max_gres > 1) /\ (ns.link_len = NumGres) THEN NO_VAL16
    ELSE Max(max_gres, 1)

\* a pick of _set_job_bits1, counted in alloc (no links, no sort)
PickAlloc(sg, ns, n, st, amount, socket_index) ==
    { [r EXCEPT !.alloc = @ + r.got] :
        r \in PickGresTopo(sg, ns, n, st, amount, socket_index, FALSE) }

\* first loop of _set_job_bits1: sockets with allocated cores
RECURSIVE JobBitsLoop1(_, _, _, _, _, _, _)
JobBitsLoop1(sg, ns, n, cores_on_sock, pick_gres, st, s) ==
    IF (s >= sg.sock_cnt) \/ ~(st.alloc < pick_gres) THEN {st}
    ELSE IF cores_on_sock[s] = 0
    THEN JobBitsLoop1(sg, ns, n, cores_on_sock, pick_gres, st, s + 1)
    ELSE UNION { JobBitsLoop1(sg, ns, n, cores_on_sock, pick_gres, r, s + 1) :
                 r \in PickAlloc(sg, ns, n, st, pick_gres - st.alloc, s) }

\* a test that lets the third loop run whatever was chosen
NothingChosenAlways(st) == TRUE

\* alloc_gres_cnt == 0: the test of the third loop of _set_job_bits1
NothingChosen(st) == st.alloc = 0

\* third loop of _set_job_bits1: one unit from a socket without cores
RECURSIVE JobBitsLoop3(_, _, _, _, _, _)
JobBitsLoop3(sg, ns, n, cores_on_sock, st, s) ==
    IF (s >= sg.sock_cnt) \/ ~NothingChosen(st) THEN {st}
    ELSE IF cores_on_sock[s] # 0
    THEN JobBitsLoop3(sg, ns, n, cores_on_sock, st, s + 1)
    ELSE UNION { JobBitsLoop3(sg, ns, n, cores_on_sock, r, s + 1) :
                 r \in PickAlloc(sg, ns, n, st, 1, s) }

\* best_inx / best_link_cnt of _set_job_bits1: the first pair (s, g), s < g,
\* of chosen units with the greatest links_cnt[s][g]; <<-1, -1>> if none
BestLink(ns, chosen) ==
    LET pairs == { pr \in chosen \X chosen :
                     (pr[1] < pr[2]) /\ (ns.links_cnt[pr[1]][pr[2]] > -1) }
    IN IF pairs = {} THEN <<-1, -1>>
       ELSE LET best == CHOOSE pr \in pairs :
                          \A q \in pairs :
                             \/ ns.links_cnt[pr[1]][pr[2]] > ns.links_cnt[q[1]][q[2]]
                             \/ /\ ns.links_cnt[pr[1]][pr[2]] = ns.links_cnt[q[1]][q[2]]
                                /\ \/ pr[1] < q[1]
                                   \/ (pr[1] = q[1]) /\ (pr[2] <= q[2])
            IN <<best[1], ns.links_cnt[best[1]][best[2]]>>

\* the pruning step drops unit worst_inx from the node's selection
ClearWorstKeepCnt(st, n, worst_inx) ==
    [st EXCEPT !.js.gres_bit_select[n] = @ \ {worst_inx},
               !.alloc = @ - 1]

ClearWorst(st, n, worst_inx) ==
    [st EXCEPT !.js.gres_bit_select[n] = @ \ {worst_inx},
               !.js.gres_cnt_node_select[n] = @ - 1,
               !.alloc = @ - 1]

\* a pruning that takes the candidate with the highest links_cnt[best_inx][.]
MostLinked(ns, best_inx, cand) ==
    CHOOSE g \in cand :
        \A h \in cand :
            \/ ns.links_cnt[best_inx][g] > ns.links_cnt[best_inx][h]
            \/ /\ ns.links_cnt[best_inx][g] = ns.links_cnt[best_inx][h]
               /\ g <= h

\* worst_inx of the pruning loop: the candidate with the lowest
\* links_cnt[best_inx][.], the lowest index among equals
WorstLinked(ns, best_inx, cand) ==
    CHOOSE g \in cand :
        \A h \in cand :
            \/ ns.links_cnt[best_inx][g] < ns.links_cnt[best_inx][h]
            \/ /\ ns.links_cnt[best_inx][g] = ns.links_cnt[best_inx][h]
               /\ g <= h

\* the pruning loop of _set_job_bits1: the chosen unit other than best_inx
\* with the lowest links_cnt[best_inx][.] (lowest index among equals) is
\* cleared while alloc_gres_cnt > max_gres
RECURSIVE PruneJobBits(_, _, _, _, _)
PruneJobBits(ns, n, st, max_gres, best) ==
    IF ~((st.alloc > max_gres) /\ (best[2] # -1)) THEN st
    ELSE
    LET cand == { g \in st.js.gres_bit_select[n] :
                    (g # best[1]) /\ (ns.links_cnt[best[1]][g] < NO_VAL16) }
    IN IF cand = {} THEN st
       ELSE PruneJobBits(ns, n,
                         ClearWorst(st, n, WorstLinked(ns, best[1], cand)),
                         max_gres, best)

\* _set_job_bits1: the possible <<job state, fini>> after the call
SetJobBits1(sg, ns, n, job_node_inx, rem_nodes, js, mc, cpus_per_core, cores_on_sock, total_cores) ==
    LET fini0 == (js.gres_per_job = js.total_gres)
        js0 == IF job_node_inx = 0 THEN [js EXCEPT !.total_gres = 0] ELSE js
        max_gres == JobMaxGres(js0, mc, rem_nodes, cpus_per_core, total_cores)
        pick_gres == JobPickGres(max_gres, ns)
        l1(st) == JobBitsLoop1(sg, ns, n, cores_on_sock, pick_gres, st, 0)
        any(st) == IF st.alloc < pick_gres
                   THEN PickAlloc(sg, ns, n, st, pick_gres - st.alloc,
                                  ANY_SOCK_TEST)
                   ELSE {st}
        l3(st) == IF NothingChosen(st)
                  THEN JobBitsLoop3(sg, ns, n, cores_on_sock, st, 0)
                  ELSE {st}
        prune(st) == IF st.alloc > max_gres
                     THEN { PruneJobBits(ns, n, st, max_gres,
                                BestLink(ns, st.js.gres_bit_select[n])) }
                     ELSE {st}
        done(st) == LET js1 == [st.js EXCEPT !.total_gres = @ + st.alloc]
                    IN { <<js1, IF fini0 \/ (js1.total_gres >= js1.gres_per_job)
                                THEN 1 ELSE 0>> }
        s1 == l1(Scratch(js0, ns, 0))
        s2 == UNION { any(st) : st \in s1 }
        s3 == UNION { l3(st) : st \in s2 }
        s4 == UNION { prune(st) : st \in s3 }
    IN UNION { done(st) : st \in s4 }

\* links_cnt of _set_job_bits2: for every unit, the links to the units
\* already chosen on the node
SeedLinks(ns, chosen) ==
    [l \in Units |->
        IF l \in ns.gres_bit_alloc THEN 0
        ELSE SumOver([g \in Units |-> ns.links_cnt[g][l]], chosen \ {l})]

\* a pick that asks for the whole gres_per_job
PickTotalWholeRequest(sg, ns, n, st, socket_index) ==
    { [r EXCEPT !.js.total_gres = @ + r.got] :
        r \in PickGresTopo(sg, ns, n, st, st.js.gres_per_job,
                           socket_index, TRUE) }

\* a pick of _set_job_bits2, added to total_gres
PickTotal(sg, ns, n, st, socket_index) ==
    { [r EXCEPT !.js.total_gres = @ + r.got] :
        r \in PickGresTopo(sg, ns, n, st,
                           st.js.gres_per_job - st.js.total_gres,
                           socket_index, TRUE) }

\* the socket loop of _set_job_bits2 from socket s on: every socket
RECURSIVE JobBits2Loop(_, _, _, _, _)
JobBits2Loop(sg, ns, n, st, s) ==
    IF (s >= sg.sock_cnt) \/ ~(st.js.gres_per_job > st.js.total_gres) THEN {st}
    ELSE UNION { JobBits2Loop(sg, ns, n, r, s + 1) :
                 r \in PickTotal(sg, ns, n, st, s) }

\* _set_job_bits2: the possible <<job state, return value>>
SetJobBits2(sg, ns, n, js) ==
    IF js.gres_per_job <= js.total_gres THEN { <<js, 1>> }
    ELSE IF n \notin js.bit_select_nodes THEN { <<js, -1>> }
    ELSE
    LET st0 == Scratch(js, ns, 0)
        seeded == IF st0.has_links
                  THEN LET l0 == SeedLinks(ns, js.gres_bit_select[n])
                       IN { [st0 EXCEPT !.links_cnt = l0, !.sorted_gres = p] :
                              p \in SortByLinks(l0) }
                  ELSE { st0 }
        loop(st) == JobBits2Loop(sg, ns, n, st, 0)
        any(st) == IF st.js.gres_per_job > st.js.total_gres
                   THEN PickTotal(sg, ns, n, st, ANY_SOCK_TEST)
                   ELSE {st}
    IN { <<st.js, IF st.js.gres_per_job <= st.js.total_gres THEN 1 ELSE 0>> :
           st \in UNION { any(st2) : st2 \in UNION { loop(st1) : st1 \in seeded } } }

(***************************************************************************)
(* Shared-GRES pickers                                                     *)
(***************************************************************************)

\* topology slots in their natural order
NaturalOrder == [j \in Units |-> j]

\* nonalloc_gres[t] of _get_sorted_topo_by_least_loaded
NonallocGres(ns, t) ==
    IF ns.topo_gres_cnt_avail[t] = 0 THEN 0
    ELSE ((ns.topo_gres_cnt_avail[t] - ns.topo_gres_cnt_alloc[t]) *
          ns.gres_cnt_avail) \div ns.topo_gres_cnt_avail[t]

\* a sort that would put the most loaded slot first
MostLoadedOrders(ns) ==
    { p \in UnitPerms :
        \A a, b \in Units :
            (a < b) => (NonallocGres(ns, p[a]) <= NonallocGres(ns, p[b])) }

\* the outcomes of qsort() with _sort_topo_by_avail_cnt: descending
\* nonalloc_gres, equal entries in any order
LeastLoadedOrders(ns) ==
    { p \in UnitPerms :
        \A a, b \in Units :
            (a < b) => (NonallocGres(ns, p[a]) >= NonallocGres(ns, p[b])) }

\* cnt_avail of slot t in _pick_shared_gres_topo
SharedCntAvailNoSelected(ns, js, n, t) ==
    U64(ns.topo_gres_cnt_avail[t] - ns.topo_gres_cnt_alloc[t])

SharedCntAvail(ns, js, n, t) ==
    U64(ns.topo_gres_cnt_avail[t] - ns.topo_gres_cnt_alloc[t] -
        js.gres_per_bit_select[n][t])

\* the least cnt_avail a slot needs in _pick_shared_gres_topo
SharedFloorOne(use_single_dev, need) == 1

SharedFloor(use_single_dev, need) == IF use_single_dev THEN need ELSE 1

\* whether slot t is barred in _pick_shared_gres_topo because an earlier
\* call drew from it
SlotTakenNever(js, n, t, no_repeat) == FALSE

SlotTaken(js, n, t, no_repeat) == no_repeat /\ (t \in js.gres_bit_select[n])

\* whether _pick_shared_gres_topo passes over slot t
SharedSkip(sock_bits, ns, js, n, t, use_busy_dev, use_single_dev, no_repeat, need) ==
    \/ (js.type_id # 0) /\ (js.type_id # ns.topo_type_id[t])
    \/ use_busy_dev /\ (ns.topo_gres_cnt_alloc[t] = 0)
    \/ SharedCntAvail(ns, js, n, t) < SharedFloor(use_single_dev, need)
    \/ t \notin sock_bits
    \/ SlotTaken(js, n, t, no_repeat)
    \/ Min(SharedCntAvail(ns, js, n, t), need) = 0

\* the for loop of _pick_shared_gres_topo from position j on; x is
\* [js, need]
RECURSIVE SharedTopoLoop(_, _, _, _, _, _, _, _, _)
SharedTopoLoop(sock_bits, ns, n, use_busy_dev, use_single_dev, no_repeat, topo_index, x, j) ==
    IF (j >= ns.topo_cnt) \/ (x.need = 0) THEN x
    ELSE
    LET t == topo_index[j] IN
    IF SharedSkip(sock_bits, ns, x.js, n, t, use_busy_dev, use_single_dev,
                  no_repeat, x.need)
    THEN SharedTopoLoop(sock_bits, ns, n, use_busy_dev, use_single_dev,
                        no_repeat, topo_index, x, j + 1)
    ELSE
    LET cnt_to_alloc == Min(SharedCntAvail(ns, x.js, n, t), x.need)
    IN SharedTopoLoop(sock_bits, ns, n, use_busy_dev, use_single_dev,
                      no_repeat, topo_index,
                      [js |-> [x.js EXCEPT
                                 !.gres_bit_select[n] = @ \cup {t},
                                 !.gres_cnt_node_select[n] = @ + cnt_to_alloc,
                                 !.gres_per_bit_select[n][t] = @ + cnt_to_alloc],
                       need |-> x.need - cnt_to_alloc],
                      j + 1)

\* _pick_shared_gres_topo
PickSharedGresTopo(sg, ns, n, use_busy_dev, use_single_dev, no_repeat, socket_index, topo_index, x) ==
    IF SockBits(sg, socket_index) = {} THEN x
    ELSE IF ~ns.has_topo_cnts THEN x
    ELSE SharedTopoLoop(SockBits(sg, socket_index), ns, n, use_busy_dev,
                        use_single_dev, no_repeat, topo_index, x, 0)

\* a socket loop of _pick_shared_gres from socket s on, over the sockets
\* whose flag in used_sock equals want_used
RECURSIVE SharedSockLoop(_, _, _, _, _, _, _, _, _, _, _)
SharedSockLoop(sg, ns, n, used_sock, use_busy_dev, use_single_dev, no_repeat, topo_index, want_used, x, s) ==
    IF (s >= sg.sock_cnt) \/ (x.need = 0) THEN x
    ELSE SharedSockLoop(sg, ns, n, used_sock, use_busy_dev, use_single_dev,
                        no_repeat, topo_index, want_used,
                        IF (used_sock[s] # 0) = want_used
                        THEN PickSharedGresTopo(sg, ns, n, use_busy_dev,
                                                use_single_dev, no_repeat, s,
                                                topo_index, x)
                        ELSE x,
                        s + 1)

\* whether _pick_shared_gres goes on to the sockets not flagged in
\* used_sock (gres_needed is a pointer there, never null)
UnflaggedPassAlways(enforce_binding) == TRUE

UnflaggedPass(enforce_binding) == ~enforce_binding

\* the three passes of _pick_shared_gres for one slot order
SharedPasses(sg, ns, n, used_sock, use_busy_dev, use_single_dev, no_repeat, enforce_binding, topo_index, x) ==
    LET a == SharedSockLoop(sg, ns, n, used_sock, use_busy_dev,
                            use_single_dev, no_repeat, topo_index, TRUE, x, 0)
        b == IF a.need # 0
             THEN PickSharedGresTopo(sg, ns, n, use_busy_dev, use_single_dev,
                                     no_repeat, ANY_SOCK_TEST, topo_index, a)
             ELSE a
    IN IF UnflaggedPass(enforce_binding)
       THEN SharedSockLoop(sg, ns, n, used_sock, use_busy_dev, use_single_dev,
                           no_repeat, topo_index, FALSE, b, 0)
       ELSE b

\* _pick_shared_gres: the possible [js, need] after the call
PickSharedGres(sg, ns, n, used_sock, use_busy_dev, use_single_dev, no_repeat, enforce_binding, ll_shared_gres, x) ==
    { SharedPasses(sg, ns, n, used_sock, use_busy_dev, use_single_dev,
                   no_repeat, enforce_binding, o, x) :
        o \in IF ll_shared_gres THEN LeastLoadedOrders(ns)
              ELSE { NaturalOrder } }

\* whether _set_shared_node_bits makes its second call of
\* _pick_shared_gres, the one that may draw from several slots
MultiDevPassAlways(need, conf) == need # 0

MultiDevPass(need, conf) == (need # 0) /\ conf.multiple_sharing_gres_pj

\* _set_shared_node_bits: the possible <<job state, rc>>
SetSharedNodeBits(sg, ns, n, js, enforce_binding, used_sock, conf) ==
    LET first == PickSharedGres(sg, ns, n, used_sock, ns.use_busy_dev, TRUE,
                                FALSE, enforce_binding, conf.ll_shared_gres,
                                [js |-> js, need |-> js.gres_per_node])
        second(x) == IF MultiDevPass(x.need, conf)
                     THEN PickSharedGres(sg, ns, n, used_sock, ns.use_busy_dev,
                                         FALSE, FALSE, enforce_binding,
                                         conf.ll_shared_gres, x)
                     ELSE {x}
    IN { <<x.js, IF x.need # 0 THEN "ESLURM_INVALID_GRES" ELSE "SLURM_SUCCESS">> :
           x \in UNION { second(x1) : x1 \in first } }

\* _set_shared_task_bits with MULTIPLE_SHARING_GRES_PJ: the tasks of socket
\* s from task i on; y is [js, rc]
RECURSIVE SharedTaskLoop(_, _, _, _, _, _, _, _, _, _)
SharedTaskLoop(sg, ns, n, enforce_binding, no_task_sharing, conf, tasks_per_socket, y, s, i) ==
    IF s >= sg.sock_cnt THEN {y}
    ELSE IF i >= tasks_per_socket[s]
    THEN SharedTaskLoop(sg, ns, n, enforce_binding, no_task_sharing, conf,
                        tasks_per_socket, y, s + 1, 0)
    ELSE UNION {
           IF x.need # 0
           THEN SharedTaskLoop(sg, ns, n, enforce_binding, no_task_sharing,
                               conf, tasks_per_socket,
                               [js |-> x.js, rc |-> "ESLURM_INVALID_GRES"],
                               s + 1, 0)
           ELSE SharedTaskLoop(sg, ns, n, enforce_binding, no_task_sharing,
                               conf, tasks_per_socket,
                               [js |-> x.js, rc |-> y.rc], s, i + 1) :
           x \in PickSharedGres(sg, ns, n,
                                [t \in 0 .. (sg.sock_cnt - 1) |->
                                    IF t = s THEN 1 ELSE 0],
                                ns.use_busy_dev, TRUE, no_task_sharing,
                                enforce_binding, conf.ll_shared_gres,
                                [js |-> y.js, need |-> y.js.gres_per_task]) }

\* _set_shared_task_bits: the possible <<job state, rc>>
SetSharedTaskBits(sg, ns, n, js, enforce_binding, no_task_sharing, conf, has_tasks, tasks_per_socket) ==
    IF ~has_tasks THEN { <<js, "SLURM_ERROR">> }
    ELSE IF ~conf.multiple_sharing_gres_pj
    THEN { <<x.js, IF x.need # 0 THEN "ESLURM_INVALID_GRES"
                   ELSE "SLURM_SUCCESS">> :
             x \in PickSharedGres(sg, ns, n, tasks_per_socket,
                       ns.use_busy_dev, TRUE, FALSE, enforce_binding,
                       conf.ll_shared_gres,
                       [js |-> js,
                        need |-> js.gres_per_task *
                                 GetTaskCntNode(has_tasks, tasks_per_socket,
                                                sg.sock_cnt)]) }
    ELSE { <<y.js, y.rc>> :
             y \in SharedTaskLoop(sg, ns, n, enforce_binding, no_task_sharing,
                                  conf, tasks_per_socket,
                                  [js |-> js, rc |-> "SLURM_SUCCESS"], 0, 0) }

(***************************************************************************)
(* Task layout builder                                                     *)
(***************************************************************************)

\* get_job_resources_offset(job_res, job_node_inx, 0, 0): nodes of the job
\* have the same socket and core counts
CoreOffset(jr, job_node_inx) ==
    job_node_inx * jr.sock_cnt * jr.cores_per_socket

\* per-node task limit of node i / job_node_inx; 0 stands for the error
\* path "failed to get cpus_per_node count"
TaskPerNodeLimit(jr, mc, job_node_inx) ==
    IF mc.ntasks_per_node # 0 THEN mc.ntasks_per_node
    ELSE IF jr.has_tasks_per_node /\ (jr.tasks_per_node[job_node_inx] # 0)
         THEN jr.tasks_per_node[job_node_inx]
    ELSE jr.cpus[job_node_inx] \div mc.cpus_per_task

\* whether the limit of the node comes from cpus_per_node / cpus_per_task
LimitFromCpus(jr, mc, job_node_inx) ==
    /\ mc.ntasks_per_node = 0
    /\ ~(jr.has_tasks_per_node /\ (jr.tasks_per_node[job_node_inx] # 0))

\* tasks started on a core that is used
TasksPerCore(mc, cpus_per_core, cpus_per_task) ==
    IF mc.ntasks_per_core # 0 THEN mc.ntasks_per_core
    ELSE IF (cpus_per_core \div cpus_per_task) < 1 THEN 1
    ELSE cpus_per_core \div cpus_per_task

\* skip_cores after a core is used: a task wider than a core takes the
\* cores that follow
SkipCores(mc, cpus_per_core, cpus_per_task, skip_cores) ==
    IF (mc.ntasks_per_core = 0) /\ ((cpus_per_core \div cpus_per_task) < 1)
    THEN (cpus_per_task \div cpus_per_core) - 1
    ELSE skip_cores

\* the counters of the node after tpc tasks are laid on socket s
AddTasks(b, s, tpc, skip) ==
    [b EXCEPT !.row[s] = @ + tpc,
              !.tasks_per_node = @ + tpc,
              !.tasks_per_socket = @ + tpc,
              !.rem_tasks = @ - tpc,
              !.skip_cores = skip]

\* a cut to the per-node limit that would not give the tasks back
CutToNodeLimitNoRefund(b, s, limit) ==
    IF (limit # 0) /\ (b.tasks_per_node > limit)
    THEN [b EXCEPT !.row[s] = @ - (b.tasks_per_node - limit)]
    ELSE b

\* the tasks beyond the per-node limit are taken back from socket s
CutToNodeLimit(b, s, limit) ==
    IF (limit # 0) /\ (b.tasks_per_node > limit)
    THEN [b EXCEPT !.row[s] = @ - (b.tasks_per_node - limit),
                   !.rem_tasks = @ + (b.tasks_per_node - limit)]
    ELSE b

\* the tasks beyond ntasks_per_socket are taken back from socket s
CutToSocketLimit(b, s, mc) ==
    IF (mc.ntasks_per_socket # 0) /\ (b.tasks_per_socket > mc.ntasks_per_socket)
    THEN [b EXCEPT !.row[s] = @ - (b.tasks_per_socket - mc.ntasks_per_socket),
                   !.rem_tasks = @ + (b.tasks_per_socket - mc.ntasks_per_socket)]
    ELSE b

RECURSIVE ForwardCores(_, _, _, _, _, _, _, _)

\* after the per-socket cut: the core loop of the socket ends when
\* ntasks_per_socket is reached, else it goes to the next core
AfterSocketLimit(jr, mc, limit, cpus_per_task, cpus_per_core, core_offset, b, sc) ==
    IF (mc.ntasks_per_socket # 0) /\ (b.tasks_per_socket >= mc.ntasks_per_socket)
    THEN ForwardCores(jr, mc, limit, cpus_per_task, cpus_per_core, core_offset,
                      [b EXCEPT !.tasks_per_socket = 0, !.skip_cores = 0],
                      <<sc[1] + 1, 0>>)
    ELSE ForwardCores(jr, mc, limit, cpus_per_task, cpus_per_core, core_offset,
                      b, <<sc[1], sc[2] + 1>>)

\* after the per-node cut: both loops end when the per-node limit is reached
AfterNodeLimit(jr, mc, limit, cpus_per_task, cpus_per_core, core_offset, b, sc) ==
    IF (limit # 0) /\ (b.tasks_per_node >= limit) THEN b
    ELSE AfterSocketLimit(jr, mc, limit, cpus_per_task, cpus_per_core,
                          core_offset, CutToSocketLimit(b, sc[1], mc), sc)

\* the socket and core loops of one node from sc = (s, c) on; b holds the
\* row of the node, tasks_per_node, tasks_per_socket, skip_cores and rem_tasks
ForwardCores(jr, mc, limit, cpus_per_task, cpus_per_core, core_offset, b, sc) ==
    IF sc[1] >= jr.sock_cnt THEN b
    ELSE IF sc[2] >= jr.cores_per_socket
    THEN ForwardCores(jr, mc, limit, cpus_per_task, cpus_per_core, core_offset,
                      [b EXCEPT !.tasks_per_socket = 0, !.skip_cores = 0],
                      <<sc[1] + 1, 0>>)
    ELSE IF ((sc[1] * jr.cores_per_socket) + sc[2] + core_offset) \notin jr.core_bitmap
    THEN ForwardCores(jr, mc, limit, cpus_per_task, cpus_per_core, core_offset,
                      b, <<sc[1], sc[2] + 1>>)
    ELSE IF b.skip_cores > 0
    THEN ForwardCores(jr, mc, limit, cpus_per_task, cpus_per_core, core_offset,
                      [b EXCEPT !.skip_cores = @ - 1], <<sc[1], sc[2] + 1>>)
    ELSE AfterNodeLimit(jr, mc, limit, cpus_per_task, cpus_per_core, core_offset,
             CutToNodeLimit(
                 AddTasks(b, sc[1],
                          TasksPerCore(mc, cpus_per_core, cpus_per_task),
                          SkipCores(mc, cpus_per_core, cpus_per_task, b.skip_cores)),
                 sc[1], limit),
             sc)

\* the forward pass from node i on; t holds tasks_per_node_socket,
\* rem_tasks, job_node_inx and the local cpus_per_task
RECURSIVE ForwardNodes(_, _, _, _, _)
ForwardNodes(jr, mc, cpus_per_core, t, i) ==
    IF i >= jr.nhosts THEN t
    ELSE
    LET zero == [s \in Sockets |-> 0]
        one == [zero EXCEPT ![0] = 1]
    IN
    IF t.job_node_inx \in jr.cnt_error
    THEN ForwardNodes(jr, mc, cpus_per_core,
                      [t EXCEPT !.tasks[i] = one, !.rem_tasks = @ - 1], i + 1)
    ELSE IF LimitFromCpus(jr, mc, t.job_node_inx) /\ (jr.cpus[t.job_node_inx] < 1)
    THEN ForwardNodes(jr, mc, cpus_per_core,
                      [t EXCEPT !.tasks[i] = one, !.rem_tasks = @ - 1], i + 1)
    ELSE
    LET cpt == IF LimitFromCpus(jr, mc, t.job_node_inx)
               THEN mc.cpus_per_task ELSE t.cpus_per_task
        b == ForwardCores(jr, mc, TaskPerNodeLimit(jr, mc, t.job_node_inx),
                          cpt, cpus_per_core, CoreOffset(jr, t.job_node_inx),
                          [row |-> zero, tasks_per_node |-> 0,
                           tasks_per_socket |-> 0, skip_cores |-> 0,
                           rem_tasks |-> t.rem_tasks],
                          <<0, 0>>)
    IN ForwardNodes(jr, mc, cpus_per_core,
                    [t EXCEPT !.tasks[i] = b.row, !.rem_tasks = b.rem_tasks,
                              !.cpus_per_task = cpt,
                              !.job_node_inx = @ + 1],
                    i + 1)

\* sockets that receive an extra task in a sweep of the overcommit pass: the
\* core index is taken without the node's core offset
OvercommitSlots(jr) ==
    { s \in 0 .. (jr.sock_cnt - 1) :
        \E c \in 0 .. (jr.cores_per_socket - 1) :
            ((s * jr.cores_per_socket) + c) \in jr.core_bitmap }

\* the overcommit pass from node i, socket s on; hang marks a while loop
\* that can make no progress
RECURSIVE Overcommit(_, _, _, _)
Overcommit(jr, t, i, s) ==
    IF t.rem_tasks <= 0 THEN t
    ELSE IF OvercommitSlots(jr) = {} THEN [t EXCEPT !.hang = TRUE]
    ELSE IF i >= jr.nhosts THEN Overcommit(jr, t, 0, 0)
    ELSE IF s >= jr.sock_cnt THEN Overcommit(jr, t, i + 1, 0)
    ELSE IF s \in OvercommitSlots(jr)
    THEN Overcommit(jr, [t EXCEPT !.tasks[i][s] = @ + 1, !.rem_tasks = @ - 1],
                    i, s + 1)
    ELSE Overcommit(jr, t, i, s + 1)

\* _build_tasks_per_node_sock
BuildTasksPerNodeSock(jr, overcommit, mc, cpus_per_core) ==
    LET t0 == [tasks |-> [i \in Nodes |-> [s \in Sockets |-> 0]],
               rem_tasks |-> mc.ntasks_per_job, job_node_inx |-> 0,
               cpus_per_task |-> 1, hang |-> FALSE]
        t1 == ForwardNodes(jr, mc, cpus_per_core, t0, 0)
    IN IF overcommit THEN Overcommit(jr, t1, 0, 0) ELSE t1

(***************************************************************************)
(* Orchestrator                                                            *)
(***************************************************************************)

\* _get_job_cnt: count for a per-job request on a node without topology
GetJobCnt(js, ns, rem_node_cnt) ==
    Min(U64(ns.gres_cnt_avail - ns.gres_cnt_alloc),
        U64(js.gres_per_job - js.total_gres - (rem_node_cnt - 1)))

\* _get_gres_node_cnt
GetGresNodeCnt(ns) ==
    IF ns.has_bit_alloc THEN NumGres
    ELSE IF ns.has_topo_bitmap THEN NumGres
    ELSE SumOver(ns.topo_gres_cnt_avail, 0 .. (ns.topo_cnt - 1))

\* _set_used_cnts: used_cores_on_sock, used_core_cnt, used_sock_cnt, sock_cnt
SetUsedCnts(jr, job_node_inx) ==
    LET off == CoreOffset(jr, job_node_inx)
        cores(s) == Cardinality({ c \in 0 .. (jr.cores_per_socket - 1) :
                       (off + (s * jr.cores_per_socket) + c) \in jr.core_bitmap })
        on_sock == [s \in Sockets |-> IF s < jr.sock_cnt THEN cores(s) ELSE 0]
    IN [used_cores_on_sock |-> on_sock,
        used_core_cnt |-> SumOver(on_sock, Sockets),
        used_sock_cnt |-> Cardinality({ s \in Sockets : on_sock[s] # 0 }),
        sock_cnt |-> jr.sock_cnt]

\* first set bit of the job's node bitmap: the nodes of the job are
\* 0 .. nhosts - 1
FirstNode == 0

\* a count that tests gres_per_socket before gres_per_node
NoTopoCntSocketFirst(js, ns, S, has_tasks, tasks_per_socket, tot_sockets) ==
    IF js.gres_per_socket # 0
    THEN U64(js.gres_per_socket * S.used_sock_cnt)
    ELSE IF js.gres_per_node # 0 THEN js.gres_per_node
    ELSE IF js.gres_per_task # 0
         THEN U64(js.gres_per_task *
                  GetTaskCntNode(has_tasks, tasks_per_socket, tot_sockets))
    ELSE IF js.gres_per_job # 0 THEN GetJobCnt(js, ns, S.rem_node_cnt)
    ELSE js.gres_cnt_node_select[S.i]

\* count set for a node without topology
NoTopoCnt(js, ns, S, has_tasks, tasks_per_socket, tot_sockets) ==
    IF js.gres_per_node # 0 THEN js.gres_per_node
    ELSE IF js.gres_per_socket # 0
         THEN U64(js.gres_per_socket * S.used_sock_cnt)
    ELSE IF js.gres_per_task # 0
         THEN U64(js.gres_per_task *
                  GetTaskCntNode(has_tasks, tasks_per_socket, tot_sockets))
    ELSE IF js.gres_per_job # 0 THEN GetJobCnt(js, ns, S.rem_node_cnt)
    ELSE js.gres_cnt_node_select[S.i]

\* a job_fini that takes the last result
UpdateJobFiniLast(job_fini, tmp) == tmp

\* job_fini after a _set_job_bits1 / _set_job_bits2 result
UpdateJobFini(job_fini, tmp) == IF job_fini # 0 THEN tmp ELSE job_fini

\* total_gres after a node was handled by a branch other than
\* _set_job_bits1
AddNodeToTotal(js, n, job_fini) ==
    IF job_fini = -1
    THEN [js EXCEPT !.total_gres = @ + js.gres_cnt_node_select[n]]
    ELSE js

\* a dispatch that tests gres_per_task before gres_per_node
SharedPickerTaskFirst(js) ==
    IF js.gres_per_task # 0 THEN "task"
    ELSE IF js.gres_per_node # 0 THEN "node" ELSE "none"

\* the picker chosen for a shared request: _set_shared_node_bits,
\* _set_shared_task_bits or none
SharedPicker(js) ==
    IF js.gres_per_node # 0 THEN "node"
    ELSE IF js.gres_per_task # 0 THEN "task" ELSE "none"

\* the picker dispatch of _select_and_set_node for a node with topology:
\* the possible [js, rc, job_fini]
Dispatch(sg, ns, js, S, has_tasks, tasks_per_socket) ==
    LET n == S.i
        keep(J) == { [js |-> j, rc |-> S.rc, job_fini |-> S.job_fini] : j \in J }
    IN
    IF js.config_shared
    THEN LET js1 == [js EXCEPT !.per_bit_nodes = @ \cup {n},
                               !.gres_per_bit_select[n] = [t \in Units |-> 0]]
         IN IF SharedPicker(js) = "node"
            THEN { [js |-> r[1], rc |-> r[2], job_fini |-> S.job_fini] :
                     r \in SetSharedNodeBits(sg, ns, n, js1, job.enforce_bind,
                                             S.used_cores_on_sock, job.conf) }
            ELSE IF SharedPicker(js) = "task"
            THEN { [js |-> r[1], rc |-> r[2], job_fini |-> S.job_fini] :
                     r \in SetSharedTaskBits(sg, ns, n, js1, job.enforce_bind,
                                             job.one_task_per_sharing, job.conf,
                                             has_tasks, tasks_per_socket) }
            ELSE { [js |-> js1, rc |-> "ESLURM_INVALID_GRES",
                    job_fini |-> S.job_fini] }
    ELSE IF js.gres_per_node # 0
    THEN keep(SetNodeBits(sg, ns, n, js, S.used_cores_on_sock))
    ELSE IF js.gres_per_socket # 0
    THEN keep(SetSockBits(sg, ns, n, js, job.mc, S.used_cores_on_sock,
                          S.used_sock_cnt))
    ELSE IF js.gres_per_task # 0
    THEN keep(SetTaskBits(sg, ns, n, js, has_tasks, tasks_per_socket))
    ELSE IF js.gres_per_job # 0
    THEN { [js |-> r[1], rc |-> S.rc,
            job_fini |-> UpdateJobFini(S.job_fini, r[2])] :
             r \in SetJobBits1(sg, ns, n, S.job_node_inx, S.rem_node_cnt, js,
                               job.mc, job.tpc, S.used_cores_on_sock,
                               S.used_core_cnt) }
    ELSE keep({js})

\* _select_and_set_node for record sg of node S.i: the possible
\* [js, S, ret], ret the value returned to list_for_each
SelectAndSetNodeOutcomes(sg, S) ==
    LET n == S.i
        js == gres_js[sg.js]
        ns == gres_ns[n][sg.js]
        jr == job.job_resrcs
        need_used == /\ (js.gres_per_node # 0) \/ (js.gres_per_socket # 0) \/
                        (js.gres_per_job # 0)
                     /\ ~S.has_used
        uc == SetUsedCnts(jr, S.job_node_inx)
        S1 == IF need_used
              THEN [S EXCEPT !.has_used = TRUE,
                             !.used_cores_on_sock = uc.used_cores_on_sock,
                             !.used_core_cnt = uc.used_core_cnt,
                             !.used_sock_cnt = uc.used_sock_cnt,
                             !.sock_cnt = uc.sock_cnt,
                             !.rc = IF uc.used_sock_cnt = 0 THEN "SLURM_ERROR"
                                    ELSE "SLURM_SUCCESS"]
              ELSE S
    IN
    IF need_used /\ (uc.used_sock_cnt = 0)
    THEN { [js |-> js, S |-> S1, ret |-> -1] }
    ELSE
    LET build == (js.gres_per_task # 0) /\ ~S1.has_tasks
        built == BuildTasksPerNodeSock(jr, job.overcommit, job.mc, job.tpc)
        S2 == IF build
              THEN [S1 EXCEPT !.has_tasks = TRUE,
                              !.tasks_per_node_socket = built.tasks,
                              !.hung = built.hang]
              ELSE S1
        tps == S2.tasks_per_node_socket[n]
        js1 == IF js.total_node_cnt = 0
               THEN [js EXCEPT !.total_node_cnt = S.node_cnt, !.total_gres = 0]
               ELSE js
        js2 == [js1 EXCEPT !.has_cnt_node_select = TRUE]
        js3 == IF n = FirstNode THEN [js2 EXCEPT !.total_gres = 0] ELSE js2
    IN
    IF S2.hung THEN { [js |-> js, S |-> S2, ret |-> 0] }
    ELSE IF ns.topo_cnt = 0
    THEN LET cnt == NoTopoCnt(js3, ns, S2, S2.has_tasks, tps, jr.sock_cnt)
         IN { [js |-> [js3 EXCEPT !.gres_cnt_node_select[n] = cnt,
                                  !.total_gres = @ + cnt],
               S |-> S2, ret |-> 0] }
    ELSE
    LET js4 == [js3 EXCEPT !.bit_select_nodes = @ \cup {n},
                           !.gres_bit_select[n] = {},
                           !.gres_cnt_node_select[n] = 0]
    IN { [js |-> AddNodeToTotal(d.js, n, d.job_fini),
          S |-> [S2 EXCEPT !.rc = d.rc, !.job_fini = d.job_fini],
          ret |-> 0] :
           d \in Dispatch(sg, ns, js4, S2, S2.has_tasks, tps) }

\* entry of gres_select_filter_select_and_set up to the first test of the
\* node loop
SelectEnter ==
    /\ sel.pc = "enter"
    /\ sel' = IF ~job.has_job_resrcs
              THEN [sel EXCEPT !.pc = "returned", !.rc = "SLURM_ERROR"]
              ELSE [sel EXCEPT
                      !.node_cnt = job.job_resrcs.nhosts,
                      !.rem_node_cnt = job.job_resrcs.nhosts,
                      !.i = 0, !.job_node_inx = 0, !.pos = 0,
                      !.pc = IF job.job_resrcs.nhosts > 0 THEN "node"
                             ELSE "after"]
    /\ UNCHANGED <<gres_js, gres_ns, sock_gres_list, job, flt, entry>>

\* whether the call on record sg of node n, left with outcome o, ran the
\* per-node or per-task shared picker and got an error from it
SharedPickerFailed(sg, n, o) ==
    /\ o.ret = 0
    /\ ~o.S.hung
    /\ gres_ns[n][sg.js].topo_cnt # 0
    /\ gres_js[sg.js].config_shared
    /\ (gres_js[sg.js].gres_per_node # 0) \/ (gres_js[sg.js].gres_per_task # 0)
    /\ o.S.rc # "SLURM_SUCCESS"

\* a picker that would charge its selection to the node state
NodeStateCharged(ns, js, n) ==
    [ns EXCEPT !.gres_bit_alloc = @ \cup js.gres_bit_select[n]]

\* the node GRES state a call on a record leaves behind, js being the
\* request after the call: the pickers only read gres_ns (bit_test,
\* bit_overlap, bit_size and plain reads), links are summed into the local
\* links_cnt array
NodeStateAfter(ns, js, n) == ns

\* list_for_each calls _select_and_set_node on the next record of the node
SelectAndSetNode ==
    /\ sel.pc = "node"
    /\ ~sel.hung
    /\ sel.pos < Len(sock_gres_list[sel.job_node_inx])
    /\ LET sg == sock_gres_list[sel.job_node_inx][sel.pos + 1]
       IN \E o \in SelectAndSetNodeOutcomes(sg, sel) :
             /\ gres_js' = [gres_js EXCEPT ![sg.js] = o.js]
             /\ sel' = [o.S EXCEPT
                          !.pos = IF o.ret < 0
                                  THEN Len(sock_gres_list[sel.job_node_inx])
                                  ELSE @ + 1,
                          !.last_node = sel.i,
                          !.shared_failed =
                              IF (@ = -1) /\ SharedPickerFailed(sg, sel.i, o)
                              THEN sel.i ELSE @]
             /\ gres_ns' = [gres_ns EXCEPT ![sel.i][sg.js] =
                                              NodeStateAfter(@, o.js, sel.i)]
    /\ UNCHANGED <<sock_gres_list, job, flt, entry>>

\* end of the node loop body and the loop test for the next node
SelectNodeDone ==
    /\ sel.pc = "node"
    /\ ~sel.hung
    /\ sel.pos >= Len(sock_gres_list[sel.job_node_inx])
    /\ sel' = [sel EXCEPT
                 !.job_node_inx = @ + 1,
                 !.rem_node_cnt = @ - 1,
                 !.i = @ + 1,
                 !.pos = 0,
                 !.has_used = FALSE,
                 !.used_cores_on_sock = [s \in Sockets |-> 0],
                 !.used_core_cnt = 0,
                 !.used_sock_cnt = 0,
                 !.sock_cnt = 0,
                 !.pc = IF (sel.i + 1 < sel.node_cnt) /\ (sel.rc = "SLURM_SUCCESS")
                        THEN "node" ELSE "after"]
    /\ UNCHANGED <<gres_js, gres_ns, sock_gres_list, job, flt, entry>>

\* whether some request has a gres_per_job counter above its total_gres
PerJobUnmet ==
    \E k \in 1 .. Len(gres_js) :
        (gres_js[k].gres_per_job # 0) /\
        (gres_js[k].total_gres < gres_js[k].gres_per_job)

\* after the node loop: pass 2 is entered when job_fini is 0, else the
\* function returns rc
SelectAfterLoop ==
    /\ sel.pc = "after"
    /\ sel' = IF sel.job_fini = 0
              THEN [sel EXCEPT !.pc = "pass2", !.i = 0, !.job_node_inx = 0,
                               !.pos = 0, !.job_fini = -1,
                               !.unmet_pass1 = PerJobUnmet]
              ELSE [sel EXCEPT !.pc = "returned", !.has_tasks = FALSE,
                               !.unmet_pass1 = PerJobUnmet]
    /\ UNCHANGED <<gres_js, gres_ns, sock_gres_list, job, flt, entry>>

\* pass 2: _set_job_bits2 on the next record of the node
Pass2Record ==
    /\ sel.pc = "pass2"
    /\ sel.pos < Len(sock_gres_list[sel.job_node_inx])
    /\ LET sg == sock_gres_list[sel.job_node_inx][sel.pos + 1]
       IN \E r \in SetJobBits2(sg, gres_ns[sel.i][sg.js], sel.i, gres_js[sg.js]) :
             /\ gres_js' = [gres_js EXCEPT ![sg.js] = r[1]]
             /\ sel' = [sel EXCEPT
                          !.pos = @ + 1,
                          !.job_fini = UpdateJobFini(sel.job_fini,
                                           IF r[2] # 0 THEN 1 ELSE 0)]
             /\ gres_ns' = [gres_ns EXCEPT ![sel.i][sg.js] =
                                              NodeStateAfter(@, r[1], sel.i)]
    /\ UNCHANGED <<sock_gres_list, job, flt, entry>>

\* pass 2: end of a node; the loop stops when job_fini is 1 or no node is
\* left, and then the function returns
Pass2NodeDone ==
    /\ sel.pc = "pass2"
    /\ sel.pos >= Len(sock_gres_list[sel.job_node_inx])
    /\ sel' = IF (sel.job_fini # 1) /\ (sel.i + 1 < sel.node_cnt)
              THEN [sel EXCEPT !.i = @ + 1, !.job_node_inx = @ + 1,
                               !.pos = 0, !.job_fini = -1]
              ELSE [sel EXCEPT
                      !.pc = "returned", !.has_tasks = FALSE,
                      !.rc = IF sel.job_fini = 0 THEN "ESLURM_NODE_NOT_AVAIL"
                             ELSE @]
    /\ UNCHANGED <<gres_js, gres_ns, sock_gres_list, job, flt, entry>>

NextSelect ==
    \/ SelectEnter
    \/ SelectAndSetNode
    \/ SelectNodeDone
    \/ SelectAfterLoop
    \/ Pass2Record
    \/ Pass2NodeDone

(***************************************************************************)
(* Inputs of the selection                                                 *)
(***************************************************************************)

SelInit ==
    [pc |-> "enter", i |-> 0, job_node_inx |-> 0, pos |-> 0, node_cnt |-> 0,
     rem_node_cnt |-> 0, job_fini |-> -1, rc |-> "SLURM_SUCCESS",
     has_used |-> FALSE, used_cores_on_sock |-> [s \in Sockets |-> 0],
     used_core_cnt |-> 0, used_sock_cnt |-> 0, sock_cnt |-> 0,
     has_tasks |-> FALSE,
     tasks_per_node_socket |-> [n \in Nodes |-> [s \in Sockets |-> 0]],
     hung |-> FALSE,
     \* history: the last node given to _select_and_set_node, and the first
     \* node where a shared picker returned an error (-1: none)
     last_node |-> -1, shared_failed |-> -1,
     \* history: whether a gres_per_job counter was unmet when the node
     \* loop of pass 1 ended
     unmet_pass1 |-> FALSE]

\* socket affinity of the units of a node: a socket or ANY_SOCK_TEST per
\* unit, low units on low sockets, units of any socket last
Affinities ==
    { a \in [Units -> Sockets \cup {ANY_SOCK_TEST}] :
        \A g, h \in Units :
            (g < h) => \/ a[h] = ANY_SOCK_TEST
                       \/ (a[g] # ANY_SOCK_TEST) /\ (a[g] <= a[h]) }

\* the sock_gres record of kind k on a node with affinity aff
SockGresOf(k, aff) ==
    [js |-> k, sock_cnt |-> NumSock, max_node_gres |-> 0,
     total_cnt |-> NumGres, has_cnt_by_sock |-> TRUE,
     cnt_by_sock |-> [s \in Sockets |-> Cardinality({ g \in Units : aff[g] = s })],
     bits_by_sock |-> [s \in Sockets |-> { g \in Units : aff[g] = s }],
     bits_any_sock |-> { g \in Units : aff[g] = ANY_SOCK_TEST }]

\* link counts: -1 to itself, 4 between the two units of heavy, 1 otherwise
LinkMatrix(heavy) ==
    [g \in Units |-> [h \in Units |->
        IF g = h THEN -1
        ELSE IF (g \in heavy) /\ (h \in heavy) THEN 4 ELSE 1]]

\* link options: no link information, or one heavy pair holding unit 0
LinkOptions == { {} } \cup { p \in SUBSET Units : (Cardinality(p) = 2) /\ (0 \in p) }

\* node state of a non-shared kind with topology: one slot per unit
NsTopo(alloc, heavy, types) ==
    [topo_cnt |-> NumGres, gres_cnt_avail |-> NumGres,
     gres_cnt_alloc |-> Cardinality(alloc),
     has_bit_alloc |-> TRUE, gres_bit_alloc |-> alloc,
     has_topo_bitmap |-> TRUE, has_topo_cnts |-> TRUE,
     link_len |-> IF heavy = {} THEN 0 ELSE NumGres,
     links_cnt |-> LinkMatrix(heavy),
     topo_gres_cnt_avail |-> [t \in Units |-> 1],
     topo_gres_cnt_alloc |-> [t \in Units |-> IF t \in alloc THEN 1 ELSE 0],
     topo_type_id |-> types, use_busy_dev |-> FALSE]

\* node state of a kind without topology: counts only
NsNoTopo(alloc_cnt) ==
    [topo_cnt |-> 0, gres_cnt_avail |-> NumGres, gres_cnt_alloc |-> alloc_cnt,
     has_bit_alloc |-> FALSE, gres_bit_alloc |-> {},
     has_topo_bitmap |-> FALSE, has_topo_cnts |-> FALSE,
     link_len |-> 0, links_cnt |-> LinkMatrix({}),
     topo_gres_cnt_avail |-> [t \in Units |-> 0],
     topo_gres_cnt_alloc |-> [t \in Units |-> 0],
     topo_type_id |-> [t \in Units |-> 0], use_busy_dev |-> FALSE]

\* node state of a shared kind: slot t of the sharing device has
\* slots[t] = <<avail, alloc>>
NsShared(slots, types, busy) ==
    [topo_cnt |-> NumGres,
     gres_cnt_avail |-> SumOver([t \in Units |-> slots[t][1]], Units),
     gres_cnt_alloc |-> SumOver([t \in Units |-> slots[t][2]], Units),
     has_bit_alloc |-> TRUE, gres_bit_alloc |-> {},
     has_topo_bitmap |-> TRUE, has_topo_cnts |-> TRUE,
     link_len |-> 0, links_cnt |-> LinkMatrix({}),
     topo_gres_cnt_avail |-> [t \in Units |-> slots[t][1]],
     topo_gres_cnt_alloc |-> [t \in Units |-> slots[t][2]],
     topo_type_id |-> types, use_busy_dev |-> busy]

\* allocated cores of the job: used[n] is the set of sockets of node n with
\* an allocated core (one core per socket)
JobResources(nhosts, used, tasks_per_core) ==
    [nhosts |-> nhosts, sock_cnt |-> NumSock, cores_per_socket |-> 1,
     core_bitmap |-> { (n * NumSock) + s0 : n \in 0 .. (nhosts - 1), s0 \in Sockets }
                     \cap UNION { { (n * NumSock) + s1 : s1 \in used[n] } :
                                  n \in 0 .. (nhosts - 1) },
     has_tasks_per_node |-> TRUE,
     tasks_per_node |-> [n \in Nodes |-> IF n < nhosts
                            THEN Cardinality(used[n]) * tasks_per_core ELSE 0],
     cpus |-> [n \in Nodes |-> IF n < nhosts THEN Cardinality(used[n]) ELSE 0],
     cnt_error |-> {}]

\* the job record with its multi-core options and the cluster policy flags
JobOf(nhosts, used, ntasks_per_core, sockets_per_node, enforce_bind, one_task_per_sharing, ll, multiple) ==
    LET tasks_per_core == IF ntasks_per_core = 0 THEN 1 ELSE ntasks_per_core
        jr == JobResources(nhosts, used, tasks_per_core)
    IN [has_job_resrcs |-> TRUE, job_resrcs |-> jr,
        overcommit |-> FALSE, enforce_bind |-> enforce_bind,
        one_task_per_sharing |-> one_task_per_sharing, tpc |-> 1,
        mc |-> [ntasks_per_job |-> SumOver(jr.tasks_per_node, Nodes),
                ntasks_per_node |-> 0, ntasks_per_socket |-> 0,
                ntasks_per_core |-> ntasks_per_core, cpus_per_task |-> 1,
                sockets_per_node |-> sockets_per_node],
        conf |-> [ll_shared_gres |-> ll, multiple_sharing_gres_pj |-> multiple]]

\* sockets with allocated cores, per node of the job
UsedSockets ==
    UNION { [Nodes -> (SUBSET Sockets) \ { {} }] }

\* a request with exactly one counter set
ReqJs(mode, cnt, cpg, type_id, shared) ==
    NewJs(IF mode = "node" THEN cnt ELSE 0, IF mode = "socket" THEN cnt ELSE 0,
          IF mode = "task" THEN cnt ELSE 0, IF mode = "job" THEN cnt ELSE 0,
          cpg, 0, 0, 0, 0, type_id, shared, shared)

Modes == {"node", "socket", "task", "job"}

\* requests of one non-shared kind, with the multi-core options that
\* concern the mode: [mode, cnt, cpg, spn, ntpc]
PlainRequests ==
    { r \in [mode : Modes, cnt : 1 .. MaxReq, cpg : {0, 1},
             spn : {0, 1}, ntpc : {0, 2}] :
        /\ (r.cpg # 0) => (r.mode = "job")
        /\ (r.spn # 0) => (r.mode = "socket")
        /\ (r.ntpc # 0) => (r.mode = "task") }

\* one non-shared kind with topology on every node; the nodes have the
\* same units, affinity, links and allocated unit; the per-node modes treat
\* each node alone, so several nodes are drawn for the per-job mode
InitPlain ==
    \E nhosts \in 1 .. NumNodes, used \in UsedSockets, r \in PlainRequests,
       aff \in Affinities, heavy \in LinkOptions,
       alloc \in { {} } \cup { {g} : g \in Units }, eb \in BOOLEAN :
        /\ \A n \in Nodes : (n >= nhosts) => (used[n] = Sockets)
        /\ (nhosts > 1) => (r.mode = "job")
        /\ gres_js = << ReqJs(r.mode, r.cnt, r.cpg, 0, FALSE) >>
        /\ gres_ns = [n \in Nodes |-> << NsTopo(alloc, heavy, [t \in Units |-> 0]) >>]
        /\ sock_gres_list = [n \in Nodes |-> << SockGresOf(1, aff) >>]
        /\ job = JobOf(nhosts, used, r.ntpc, r.spn, eb, FALSE, FALSE, FALSE)

\* the sock_gres record of kind k on a node without topology
SockGresNoTopo(k, free) ==
    [js |-> k, sock_cnt |-> NumSock, max_node_gres |-> 0,
     total_cnt |-> free, has_cnt_by_sock |-> FALSE,
     cnt_by_sock |-> [s \in Sockets |-> 0],
     bits_by_sock |-> [s \in Sockets |-> {}],
     bits_any_sock |-> {}]

\* a split affinity: unit 0 on socket 0, the last unit on any socket, the
\* others on the last socket
SplitAffinity ==
    [g \in Units |-> IF g = 0 THEN 0
                     ELSE IF g = NumGres - 1 THEN ANY_SOCK_TEST
                     ELSE NumSock - 1]

\* one non-shared kind counted without topology on the last node, and on
\* the first node too unless topo_first
InitNoTopo ==
    \E nhosts \in 1 .. NumNodes, used \in UsedSockets, mode \in Modes,
       cnt \in 1 .. MaxReq, alloc_cnt \in 0 .. NumGres, topo_first \in BOOLEAN :
        /\ \A n \in Nodes : (n >= nhosts) => (used[n] = Sockets)
        /\ topo_first => (nhosts > 1)
        /\ gres_js = << ReqJs(mode, cnt, 0, 0, FALSE) >>
        /\ gres_ns = [n \in Nodes |->
                        IF topo_first /\ (n = 0)
                        THEN << NsTopo({}, {}, [t \in Units |-> 0]) >>
                        ELSE << NsNoTopo(alloc_cnt) >>]
        /\ sock_gres_list = [n \in Nodes |->
                        IF topo_first /\ (n = 0)
                        THEN << SockGresOf(1, SplitAffinity) >>
                        ELSE << SockGresNoTopo(1, NumGres - alloc_cnt) >>]
        /\ job = JobOf(nhosts, used, 0, 0, FALSE, FALSE, FALSE, FALSE)

\* one kind without topology on the nodes of the job, with any combination
\* of the four counters, at least one of them set
InitNoTopoCounters ==
    \E nhosts \in 1 .. NumNodes, used \in UsedSockets, per_node \in {0, 3},
       per_socket \in 0 .. 1, per_task \in {0, 2}, per_job \in {0, 2},
       alloc_cnt \in 0 .. 1 :
        /\ \A n \in Nodes : (n >= nhosts) => (used[n] = Sockets)
        /\ per_node + per_socket + per_task + per_job > 0
        /\ gres_js = << NewJs(per_node, per_socket, per_task, per_job,
                              0, 0, 0, 0, 0, 0, FALSE, FALSE) >>
        /\ gres_ns = [n \in Nodes |-> << NsNoTopo(alloc_cnt) >>]
        /\ sock_gres_list = [n \in Nodes |->
                               << SockGresNoTopo(1, NumGres - alloc_cnt) >>]
        /\ job = JobOf(nhosts, used, 0, 0, FALSE, FALSE, FALSE, FALSE)

\* <<avail, alloc>> of the slots of a sharing device, by pattern
SharedSlots(p) ==
    [t \in Units |->
        IF p = 0 THEN <<2, 0>>
        ELSE IF p = 1 THEN (IF t = 0 THEN <<2, 1>> ELSE <<2, 0>>)
        ELSE IF p = 2 THEN (IF t = 1 THEN <<2, 1>>
                            ELSE IF t = 2 THEN <<1, 0>> ELSE <<2, 0>>)
        ELSE (IF t = 0 THEN <<1, 0>> ELSE IF t = 1 THEN <<2, 2>> ELSE <<2, 0>>)]

\* one shared kind on the nodes of the job, requested per node or per task
InitShared ==
    \E used \in UsedSockets, mode \in {"node", "task"}, cnt \in 1 .. MaxReq,
       aff \in { a \in Affinities : a[0] = 0 }, p \in 0 .. 3,
       eb \in BOOLEAN, busy \in BOOLEAN, one_task \in BOOLEAN,
       ll \in BOOLEAN, multiple \in BOOLEAN :
        /\ \A n \in Nodes : (n >= 1) => (used[n] = Sockets)
        /\ gres_js = << ReqJs(mode, cnt, 0, 0, TRUE) >>
        /\ gres_ns = [n \in Nodes |->
                        << NsShared(SharedSlots(p), [t \in Units |-> 0], busy) >>]
        /\ sock_gres_list = [n \in Nodes |-> << SockGresOf(1, aff) >>]
        /\ job = JobOf(1, used, 0, 0, eb, one_task, ll, multiple)

\* two kinds on the same units: one requested per job, the other per node,
\* per socket or per task (or shared, per node), in either list order
InitTwoKinds ==
    \E nhosts \in 1 .. NumNodes, job_cnt \in 1 .. MaxReq,
       mode \in {"node", "socket", "task"}, cnt \in 1 .. 2,
       shared \in BOOLEAN, job_first \in BOOLEAN,
       aff \in { a \in Affinities : (a[0] = 0) /\ (a[NumGres - 1] # 0) } :
        /\ shared => (mode = "node")
        /\ gres_js = << ReqJs("job", job_cnt, 0, 0, FALSE),
                        ReqJs(mode, cnt, 0, 0, shared) >>
        /\ gres_ns = [n \in Nodes |->
                        << NsTopo({}, {}, [t \in Units |-> 0]),
                           IF shared
                           THEN NsShared(SharedSlots(0), [t \in Units |-> 0], FALSE)
                           ELSE NsTopo({}, {}, [t \in Units |-> 0]) >>]
        /\ sock_gres_list = [n \in Nodes |->
                        IF job_first
                        THEN << SockGresOf(1, aff), SockGresOf(2, aff) >>
                        ELSE << SockGresOf(2, aff), SockGresOf(1, aff) >>]
        /\ job = JobOf(nhosts, [n \in Nodes |-> Sockets], 0, 0, FALSE, FALSE,
                       FALSE, FALSE)

\* a shared kind requested per node or per task together with a non-shared
\* kind requested per node or per job, in either list order, on every node
InitSharedMixed ==
    \E nhosts \in 1 .. NumNodes, mode \in {"node", "task"}, cnt \in 1 .. MaxReq,
       other \in {"node", "job"}, p \in 0 .. 3, shared_first \in BOOLEAN,
       multiple \in BOOLEAN :
        /\ gres_js = << ReqJs(mode, cnt, 0, 0, TRUE),
                        ReqJs(other, 1, 0, 0, FALSE) >>
        /\ gres_ns = [n \in Nodes |->
                        << NsShared(SharedSlots(p), [t \in Units |-> 0], FALSE),
                           NsTopo({}, {}, [t \in Units |-> 0]) >>]
        /\ sock_gres_list = [n \in Nodes |->
                        IF shared_first
                        THEN << SockGresOf(1, SplitAffinity),
                                SockGresOf(2, SplitAffinity) >>
                        ELSE << SockGresOf(2, SplitAffinity),
                                SockGresOf(1, SplitAffinity) >>]
        /\ job = JobOf(nhosts, [n \in Nodes |-> Sockets], 0, 0, FALSE, FALSE,
                       FALSE, multiple)

\* one shared kind on one node with any combination of the four counters,
\* at least one of them set
InitSharedCounters ==
    \E used \in UsedSockets, per_node \in 0 .. 1, per_socket \in 0 .. 1,
       per_task \in 0 .. 1, per_job \in 0 .. 1, p \in 0 .. 3,
       multiple \in BOOLEAN :
        /\ \A n \in Nodes : (n >= 1) => (used[n] = Sockets)
        /\ per_node + per_socket + per_task + per_job > 0
        /\ gres_js = << NewJs(per_node, per_socket, per_task, per_job,
                              0, 0, 0, 0, 0, 0, TRUE, TRUE) >>
        /\ gres_ns = [n \in Nodes |->
                        << NsShared(SharedSlots(p), [t \in Units |-> 0], FALSE) >>]
        /\ sock_gres_list = [n \in Nodes |-> << SockGresOf(1, SplitAffinity) >>]
        /\ job = JobOf(1, used, 0, 0, FALSE, FALSE, FALSE, multiple)

\* one typed request (type 1) on a node whose units are of types 1 and 2
InitTyped ==
    \E types \in [Units -> {1, 2}], mode \in {"node", "job"}, cnt \in 1 .. 2,
       shared \in BOOLEAN,
       aff \in { a \in Affinities : (a[0] = 0) /\ (a[NumGres - 1] # 0) } :
        /\ shared => (mode = "node")
        /\ gres_js = << ReqJs(mode, cnt, 0, 1, shared) >>
        /\ gres_ns = [n \in Nodes |->
                        << IF shared
                           THEN NsShared(SharedSlots(0), types, FALSE)
                           ELSE NsTopo({}, {}, types) >>]
        /\ sock_gres_list = [n \in Nodes |-> << SockGresOf(1, aff) >>]
        /\ job = JobOf(1, [n \in Nodes |-> Sockets], 0, 0, TRUE, FALSE,
                       FALSE, FALSE)

InitSelect ==
    /\ \/ InitPlain \/ InitNoTopo \/ InitNoTopoCounters \/ InitShared \/ InitTwoKinds
       \/ InitSharedMixed \/ InitSharedCounters \/ InitTyped
    /\ flt = [pc |-> "idle"]
    /\ sel = SelInit
    /\ entry = sock_gres_list

SpecSelect == InitSelect /\ [][NextSelect]_vars

(***************************************************************************)
(* A single call of _pick_gres_topo                                        *)
(***************************************************************************)

\* link counts with unconnected units: -1 to itself, 4 between the two
\* units of heavy, 0 otherwise
SparseLinks(heavy) ==
    [g \in Units |-> [h \in Units |->
        IF g = h THEN -1
        ELSE IF (g \in heavy) /\ (h \in heavy) THEN 4 ELSE 0]]

\* the scratch a picker hands to _pick_gres_topo: fresh (sorted_gres in
\* index order, links_cnt zero) as in _set_node_bits, _set_sock_bits and
\* _set_task_bits, or seeded with the links of the units already selected
\* and sorted as in _set_job_bits2
PickScratch(js, ns, seeded) ==
    IF seeded /\ (ns.link_len = NumGres)
    THEN { [Scratch(js, ns, 0) EXCEPT !.links_cnt = SeedLinks(ns, js.gres_bit_select[0]),
                                     !.sorted_gres = p] :
             p \in SortByLinks(SeedLinks(ns, js.gres_bit_select[0])) }
    ELSE { Scratch(js, ns, 0) }

\* one call _pick_gres_topo(sock_gres, gres_needed, 0, socket_index, ...)
PickCall ==
    /\ sel.pc = "call"
    /\ \E st \in PickScratch(gres_js[1], gres_ns[0][1], sel.seeded) :
         \E r \in PickGresTopo(sock_gres_list[0][1], gres_ns[0][1], 0, st,
                                sel.gres_needed, sel.socket_index, TRUE) :
            /\ gres_js' = [gres_js EXCEPT ![1] = r.js]
            /\ sel' = [sel EXCEPT !.pc = "done", !.got = r.got,
                                  !.order = r.order]
    /\ UNCHANGED <<gres_ns, sock_gres_list, job, flt, entry>>

NextPick == PickCall

\* a node with topology, some units allocated to other jobs, with or
\* without link information; the job may hold units of the node already
\* (only when the scratch is seeded from them)
InitPick ==
    \E aff \in Affinities, alloc \in SUBSET Units, pre \in SUBSET Units,
       heavy \in LinkOptions, sparse \in BOOLEAN, seeded \in BOOLEAN,
       gres_needed \in 1 .. MaxReq,
       socket_index \in Sockets \cup {ANY_SOCK_TEST} :
        /\ pre \cap alloc = {}
        /\ ~seeded => (pre = {})
        /\ gres_js = << [ReqJs("job", MaxReq, 0, 0, FALSE) EXCEPT
                            !.has_cnt_node_select = TRUE,
                            !.bit_select_nodes = {0},
                            !.gres_bit_select[0] = pre,
                            !.gres_cnt_node_select[0] = Cardinality(pre)] >>
        /\ gres_ns = [n \in Nodes |->
                        << IF sparse
                           THEN [NsTopo(alloc, heavy, [t \in Units |-> 0])
                                   EXCEPT !.link_len = NumGres,
                                          !.links_cnt = SparseLinks(heavy)]
                           ELSE NsTopo(alloc, heavy, [t \in Units |-> 0]) >>]
        /\ sock_gres_list = [n \in Nodes |-> << SockGresOf(1, aff) >>]
        /\ job = JobOf(1, [n \in Nodes |-> Sockets], 0, 0, FALSE, FALSE,
                       FALSE, FALSE)
        /\ flt = [pc |-> "idle"]
        /\ sel = [pc |-> "call", seeded |-> seeded,
                  gres_needed |-> gres_needed, socket_index |-> socket_index,
                  pre |-> pre, got |-> 0, order |-> <<>>]
        /\ entry = sock_gres_list

SpecPick == InitPick /\ [][NextPick]_vars

(***************************************************************************)
(* _build_tasks_per_node_sock, one loop iteration at a time                *)
(***************************************************************************)

\* cores of a socket in the layouts the builder is run on
CoresPerSock == 2

\* the counters of the node being laid out, as AddTasks and the cuts take
\* them
NodeCounters(S) ==
    [row |-> S.tasks[S.i], tasks_per_node |-> S.tasks_per_node,
     tasks_per_socket |-> S.tasks_per_socket, skip_cores |-> S.skip_cores,
     rem_tasks |-> S.rem_tasks]

\* the locals after the counters b of the node were updated
StoreCounters(S, b) ==
    [S EXCEPT !.tasks[S.i] = b.row, !.tasks_per_node = b.tasks_per_node,
              !.tasks_per_socket = b.tasks_per_socket,
              !.skip_cores = b.skip_cores, !.rem_tasks = b.rem_tasks]

\* "Set default of 1 task on socket 0" and continue with the next node
DefaultOneTask(S) ==
    [S EXCEPT !.tasks[S.i] = [s \in Sockets |-> IF s = 0 THEN 1 ELSE 0],
              !.rem_tasks = @ - 1, !.defaulted = @ \cup {S.i}, !.i = @ + 1]

\* the locals when the socket loop moves to the next socket
NextSocket(S) ==
    [S EXCEPT !.s = @ + 1, !.c = 0, !.tasks_per_socket = 0, !.skip_cores = 0]

\* the head of the node loop of the forward pass: the socket and core
\* counts, the per-node task limit and the core offset of node i
BuildNode ==
    /\ sel.pc = "node"
    /\ LET jr == job.job_resrcs
           idx == sel.job_node_inx
       IN sel' =
            IF sel.i >= jr.nhosts
            THEN [sel EXCEPT !.pc = "over", !.i = 0, !.s = 0]
            ELSE IF idx \in jr.cnt_error THEN DefaultOneTask(sel)
            ELSE IF LimitFromCpus(jr, job.mc, idx) /\ (jr.cpus[idx] < 1)
            THEN DefaultOneTask(sel)
            ELSE [sel EXCEPT
                    !.pc = "core", !.s = 0, !.c = 0,
                    !.tasks_per_node = 0, !.tasks_per_socket = 0,
                    !.skip_cores = 0,
                    !.task_per_node_limit = TaskPerNodeLimit(jr, job.mc, idx),
                    !.cpus_per_task = IF LimitFromCpus(jr, job.mc, idx)
                                      THEN job.mc.cpus_per_task ELSE @,
                    !.core_offset = CoreOffset(jr, idx),
                    !.job_node_inx = @ + 1]
    /\ UNCHANGED <<gres_js, gres_ns, sock_gres_list, job, flt, entry>>

\* the locals after the allocated core (s, c) of node i received its tasks
\* and the two caps were applied
CoreUsed(S, jr, mc, cpus_per_core) ==
    LET added == AddTasks(NodeCounters(S), S.s,
                          TasksPerCore(mc, cpus_per_core, S.cpus_per_task),
                          SkipCores(mc, cpus_per_core, S.cpus_per_task,
                                    S.skip_cores))
        b1 == CutToNodeLimit(added, S.s, S.task_per_node_limit)
        b2 == CutToSocketLimit(b1, S.s, mc)
        S0 == [S EXCEPT !.cut_node = @ \/ (b1 # added)]
    IN IF (S.task_per_node_limit # 0) /\
          (b1.tasks_per_node >= S.task_per_node_limit)
       THEN [StoreCounters(S0, b1) EXCEPT !.pc = "node", !.i = @ + 1]
       ELSE IF (mc.ntasks_per_socket # 0) /\
               (b2.tasks_per_socket >= mc.ntasks_per_socket)
       THEN NextSocket(StoreCounters([S0 EXCEPT !.cut_sock = @ \/ (b2 # b1)],
                                     b2))
       ELSE [StoreCounters(S0, b2) EXCEPT !.c = @ + 1]

\* one test of the socket loop or one iteration of the core loop of the
\* forward pass
BuildCore ==
    /\ sel.pc = "core"
    /\ LET jr == job.job_resrcs
       IN sel' =
            IF sel.s >= jr.sock_cnt
            THEN [sel EXCEPT !.pc = "node", !.i = @ + 1]
            ELSE IF sel.c >= jr.cores_per_socket THEN NextSocket(sel)
            ELSE IF ((sel.s * jr.cores_per_socket) + sel.c + sel.core_offset)
                        \notin jr.core_bitmap
            THEN [sel EXCEPT !.c = @ + 1]
            ELSE IF sel.skip_cores > 0
            THEN [sel EXCEPT !.skip_cores = @ - 1, !.c = @ + 1]
            ELSE CoreUsed(sel, jr, job.mc, job.tpc)
    /\ UNCHANGED <<gres_js, gres_ns, sock_gres_list, job, flt, entry>>

\* one test of the while, node or socket loop of the overcommit pass, or
\* one iteration of the socket loop
BuildOvercommit ==
    /\ sel.pc = "over"
    /\ (sel.rem_tasks > 0) /\ job.overcommit
    /\ LET jr == job.job_resrcs
       IN sel' =
            IF sel.i >= jr.nhosts
            THEN [sel EXCEPT !.i = 0, !.s = 0, !.sweeps = Min(@ + 1, 2)]
            ELSE IF sel.s >= jr.sock_cnt
            THEN [sel EXCEPT !.i = @ + 1, !.s = 0]
            ELSE IF sel.s \in OvercommitSlots(jr)
            THEN [sel EXCEPT !.tasks[sel.i][sel.s] = @ + 1,
                             !.rem_tasks = @ - 1, !.s = @ + 1]
            ELSE [sel EXCEPT !.s = @ + 1]
    /\ UNCHANGED <<gres_js, gres_ns, sock_gres_list, job, flt, entry>>

\* the while loop of the overcommit pass is left and the array returned
BuildReturn ==
    /\ sel.pc = "over"
    /\ ~((sel.rem_tasks > 0) /\ job.overcommit)
    /\ sel' = [sel EXCEPT !.pc = "done"]
    /\ UNCHANGED <<gres_js, gres_ns, sock_gres_list, job, flt, entry>>

NextBuild ==
    \/ BuildNode
    \/ BuildCore
    \/ BuildOvercommit
    \/ BuildReturn

\* allocated cores of a node, by pattern: none, the first core, the cores
\* of socket 0, the first core of each socket, every core
CorePattern(p) ==
    IF p = 0 THEN {}
    ELSE IF p = 1 THEN {0}
    ELSE IF p = 2 THEN 0 .. (CoresPerSock - 1)
    ELSE IF p = 3 THEN { s * CoresPerSock : s \in Sockets }
    ELSE 0 .. ((NumSock * CoresPerSock) - 1)

\* a job on NumNodes nodes of NumSock sockets with CoresPerSock cores each
InitBuild ==
    \E pat \in [Nodes -> 0 .. 4],
       ntasks_per_job \in {2, 5}, ntasks_per_node \in {0, 2},
       ntasks_per_socket \in {0, 1}, ntasks_per_core \in {0, 3},
       cpus_per_task \in 1 .. 3, cpus_per_core \in 1 .. 2,
       has_tasks_per_node \in BOOLEAN, overcommit \in BOOLEAN,
       cnt_error \in { {}, {1} } :
        \* what get_job_resources_cnt leaves in sock_cnt when it fails is
        \* not in this file: the overcommit pass, which reads sock_cnt, is
        \* run on jobs whose counts were all read
        /\ (cnt_error # {}) => ~overcommit
        /\ job = [has_job_resrcs |-> TRUE,
                  job_resrcs |->
                    [nhosts |-> NumNodes, sock_cnt |-> NumSock,
                     cores_per_socket |-> CoresPerSock,
                     core_bitmap |->
                        UNION { { (n * NumSock * CoresPerSock) + c :
                                    c \in CorePattern(pat[n]) } : n \in Nodes },
                     has_tasks_per_node |-> has_tasks_per_node,
                     tasks_per_node |-> [n \in Nodes |-> 3],
                     cpus |-> [n \in Nodes |->
                                 Cardinality(CorePattern(pat[n])) * cpus_per_core],
                     cnt_error |-> cnt_error],
                  overcommit |-> overcommit, enforce_bind |-> FALSE,
                  one_task_per_sharing |-> FALSE, tpc |-> cpus_per_core,
                  mc |-> [ntasks_per_job |-> ntasks_per_job,
                          ntasks_per_node |-> ntasks_per_node,
                          ntasks_per_socket |-> ntasks_per_socket,
                          ntasks_per_core |-> ntasks_per_core,
                          cpus_per_task |-> cpus_per_task,
                          sockets_per_node |-> 0],
                  conf |-> [ll_shared_gres |-> FALSE,
                            multiple_sharing_gres_pj |-> FALSE]]
        /\ gres_js = << >>
        /\ gres_ns = [n \in Nodes |-> << >>]
        /\ sock_gres_list = [n \in Nodes |-> << >>]
        /\ flt = [pc |-> "idle"]
        /\ sel = [pc |-> "node", i |-> 0, s |-> 0, c |-> 0,
                  tasks |-> [n \in Nodes |-> [s \in Sockets |-> 0]],
                  rem_tasks |-> ntasks_per_job, job_node_inx |-> 0,
                  cpus_per_task |-> 1, task_per_node_limit |-> 0,
                  core_offset |-> 0, tasks_per_node |-> 0,
                  tasks_per_socket |-> 0, skip_cores |-> 0,
                  cut_node |-> FALSE, cut_sock |-> FALSE,
                  defaulted |-> {}, sweeps |-> 0]
        /\ entry = sock_gres_list

SpecBuild == InitBuild /\ [][NextBuild]_vars

\* the loops of the builder run on: no step is put off for ever
SpecBuildFair == SpecBuild /\ WF_vars(NextBuild)

(***************************************************************************)
(* A single call of _get_job_cnt                                           *)
(***************************************************************************)

\* most nodes left to place resources on when _get_job_cnt is called
MaxRemNodes == 3

\* one call _get_job_cnt(sock_gres, gres_ns, rem_node_cnt): the count is
\* stored in gres_cnt_node_select[0]
JobCntCall ==
    /\ sel.pc = "call"
    /\ gres_js' = [gres_js EXCEPT ![1].gres_cnt_node_select[0] =
                      GetJobCnt(gres_js[1], gres_ns[0][1], sel.rem_node_cnt)]
    /\ sel' = [sel EXCEPT !.pc = "done"]
    /\ UNCHANGED <<gres_ns, sock_gres_list, job, flt, entry>>

NextJobCnt == JobCntCall

\* a per-job request that got total_gres units on earlier nodes, on a node
\* without topology with alloc_cnt of its units allocated, rem_node_cnt
\* nodes being left, this one included
InitJobCnt ==
    \E per_job \in 1 .. MaxReq, total \in 0 .. MaxReq,
       rem_node_cnt \in 1 .. MaxRemNodes, alloc_cnt \in 0 .. NumGres :
        /\ gres_js = << [ReqJs("job", per_job, 0, 0, FALSE) EXCEPT
                            !.has_cnt_node_select = TRUE,
                            !.total_node_cnt = MaxRemNodes,
                            !.total_gres = total] >>
        /\ gres_ns = [n \in Nodes |-> << NsNoTopo(alloc_cnt) >>]
        /\ sock_gres_list = [n \in Nodes |->
                               << SockGresNoTopo(1, NumGres - alloc_cnt) >>]
        /\ job = JobOf(1, [n \in Nodes |-> Sockets], 0, 0, FALSE, FALSE,
                       FALSE, FALSE)
        /\ flt = [pc |-> "idle"]
        /\ sel = [pc |-> "call", rem_node_cnt |-> rem_node_cnt]
        /\ entry = sock_gres_list

SpecJobCnt == InitJobCnt /\ [][NextJobCnt]_vars

(***************************************************************************)
(* Properties of the selection                                             *)
(***************************************************************************)

Returned == sel.pc = "returned"
Succeeded == Returned /\ (sel.rc = "SLURM_SUCCESS")
Kinds == 1 .. Len(gres_js)
JobNodes == 0 .. (job.job_resrcs.nhosts - 1)

\* sockets of job node n with an allocated core of the job
CoreSockets(n) == { s \in Sockets : SetUsedCnts(job.job_resrcs, n).used_cores_on_sock[s] # 0 }

\* C1: after a successful return, for every non-shared kind and every node
\* of the job with topology, the number of bits of gres_bit_select[n]
\* equals gres_cnt_node_select[n]
C1_BitCountEqualsCnt ==
    Succeeded =>
        \A k \in Kinds, n \in JobNodes :
            (~gres_js[k].config_shared /\ (gres_ns[n][k].topo_cnt # 0)) =>
                Cardinality(gres_js[k].gres_bit_select[n]) =
                    gres_js[k].gres_cnt_node_select[n]

\* a per-job request with links over two nodes got 2 units on the first
\* node, where 3 were free on sockets with cores (pass 1 pruned), and 1 on the
\* second
C1_Witness ==
    /\ Succeeded
    /\ Len(gres_js) = 1
    /\ gres_js[1].gres_per_job = 3
    /\ ~gres_js[1].config_shared
    /\ job.job_resrcs.nhosts = 2
    /\ gres_ns[0][1].link_len # 0
    /\ gres_ns[0][1].gres_bit_alloc = {}
    /\ \A g \in Units : \E s \in CoreSockets(0) :
          g \in sock_gres_list[0][1].bits_by_sock[s]
    /\ gres_js[1].gres_cnt_node_select[0] = 2
    /\ gres_js[1].gres_cnt_node_select[1] = 1

\* C2: for a shared kind on node n, in every state, the sum over the slots
\* of gres_per_bit_select[n] equals gres_cnt_node_select[n], and for every
\* slot gres_per_bit_select[n][t] + topo_gres_cnt_alloc[t] is at most
\* topo_gres_cnt_avail[t]
C2_SharedPerBitSums ==
    \A k \in Kinds, n \in Nodes :
        (gres_js[k].config_shared /\
         ((gres_js[k].gres_per_node # 0) \/ (gres_js[k].gres_per_task # 0))) =>
            /\ SumOver(gres_js[k].gres_per_bit_select[n], Units) =
                   gres_js[k].gres_cnt_node_select[n]
            /\ \A t \in Units :
                   gres_js[k].gres_per_bit_select[n][t] +
                       gres_ns[n][k].topo_gres_cnt_alloc[t] <=
                   gres_ns[n][k].topo_gres_cnt_avail[t]

\* a shared request was served from two slots, one of them partly
\* allocated to other jobs
C2_Witness ==
    /\ Returned
    /\ \E k \in Kinds, n \in JobNodes :
          /\ gres_js[k].config_shared
          /\ gres_js[k].gres_cnt_node_select[n] >= 2
          /\ Cardinality({ t \in Units : gres_js[k].gres_per_bit_select[n][t] > 0 }) >= 2
          /\ \E t \in Units : /\ gres_js[k].gres_per_bit_select[n][t] > 0
                              /\ gres_ns[n][k].topo_gres_cnt_alloc[t] > 0

\* C3: in every state, for every kind and node, gres_bit_select[n] and the
\* node's gres_bit_alloc are disjoint
C3_SelectDisjointFromAlloc ==
    \A k \in Kinds, n \in Nodes :
        gres_js[k].gres_bit_select[n] \cap gres_ns[n][k].gres_bit_alloc = {}

\* a unit allocated to another job was passed over: a unit after it in the
\* same socket's bits was chosen
C3_Witness ==
    /\ Returned
    /\ \E k \in Kinds, n \in JobNodes, s \in Sockets :
          \E g \in gres_ns[n][k].gres_bit_alloc, h \in gres_js[k].gres_bit_select[n] :
             /\ g < h
             /\ g \in sock_gres_list[n][1].bits_by_sock[s]
             /\ h \in sock_gres_list[n][1].bits_by_sock[s]

\* C4: after the selection completes, total_gres of every requested kind
\* equals the sum of gres_cnt_node_select over the nodes of the job
C4_TotalIsSumOfNodeCnts ==
    Succeeded =>
        \A k \in Kinds :
            gres_js[k].total_gres =
                SumOver(gres_js[k].gres_cnt_node_select, JobNodes)

\* C5: after a successful return, every request with gres_per_job > 0 has
\* total_gres >= gres_per_job
C5_PerJobSatisfied ==
    Succeeded =>
        \A k \in Kinds :
            (gres_js[k].gres_per_job > 0) =>
                (gres_js[k].total_gres >= gres_js[k].gres_per_job)

\* C6: with enforce-binding, every chosen unit of a node belongs to
\* bits_by_sock[s] of a socket s with an allocated core of the job, or to
\* bits_any_sock
C6_BindingRespected ==
    job.enforce_bind =>
        \A n \in JobNodes : \A p \in 1 .. Len(sock_gres_list[n]) :
            \A g \in gres_js[sock_gres_list[n][p].js].gres_bit_select[n] :
                \/ g \in sock_gres_list[n][p].bits_any_sock
                \/ \E s \in CoreSockets(n) :
                      g \in sock_gres_list[n][p].bits_by_sock[s]

\* C7: for a request with type_id # 0, every chosen slot or unit has
\* topo_type_id equal to the request's type_id
C7_TypeRespected ==
    \A k \in Kinds, n \in JobNodes :
        (gres_js[k].type_id # 0) =>
            \A g \in gres_js[k].gres_bit_select[n] :
                gres_ns[n][k].topo_type_id[g] = gres_js[k].type_id

(***************************************************************************)
(* Properties of the filter                                                *)
(***************************************************************************)

FilterReturned == flt.pc = "returned"
FilterRejected == FilterReturned /\ (flt.rc = -1)

\* the records of the node the loop has handled, the rejecting one included
Handled == 1 .. flt.pos

\* the request and the record on entry of position p of the node's list
ReqAt(p) == gres_js[entry[0][p].js]

\* cpus_per_gres as derived: cpus_per_gres, else ntasks_per_gres (when set)
\* times cpus_per_task, else def_cpus_per_gres
DerivedCpusPerGres(p) ==
    LET r == ReqAt(p)
        set == (r.ntasks_per_gres # 0) /\ (r.ntasks_per_gres # NO_VAL16)
    IN IF r.cpus_per_gres # 0 THEN r.cpus_per_gres
       ELSE IF set /\ (r.ntasks_per_gres * job.filter.cpus_per_task # 0)
            THEN r.ntasks_per_gres * job.filter.cpus_per_task
       ELSE r.def_cpus_per_gres

\* max_cpus / cpus_per_gres is 0 or below one of the three counters
TooFewCpus(p) ==
    /\ DerivedCpusPerGres(p) # 0
    /\ LET q == job.filter.max_cpus \div DerivedCpusPerGres(p)
       IN \/ q = 0
          \/ q < ReqAt(p).gres_per_node
          \/ q < ReqAt(p).gres_per_task
          \/ q < ReqAt(p).gres_per_socket

\* the cores of the bitmap give no unit at cpus_per_gres each
NoGresFromCores(p) ==
    /\ DerivedCpusPerGres(p) # 0
    /\ (ReqAt(p).ntasks_per_gres = NO_VAL16) \/ ~job.filter.whole_node
    /\ (Cardinality(job.filter.core_bitmap) * job.filter.cpus_per_core)
           \div DerivedCpusPerGres(p) = 0

\* memory is tracked and one unit needs more than avail_mem
TooLittleMem(p) ==
    LET m == IF ReqAt(p).mem_per_gres # 0 THEN ReqAt(p).mem_per_gres
             ELSE ReqAt(p).def_mem_per_gres
    IN (m # 0) /\ (job.filter.avail_mem # NO_VAL64) /\ (m > job.filter.avail_mem)

\* gres_per_socket and gres_per_task times their multipliers
PerSocketTerm(p) ==
    IF job.filter.sock_per_node = NO_VAL THEN ReqAt(p).gres_per_socket
    ELSE ReqAt(p).gres_per_socket * job.filter.sock_per_node

PerTaskTerm(p) ==
    IF job.filter.task_per_node = NO_VAL16 THEN ReqAt(p).gres_per_task
    ELSE ReqAt(p).gres_per_task * job.filter.task_per_node

\* min_gres as the maximum of the three terms alone
PlainMinGres(p) ==
    Max(IF job.filter.whole_node THEN entry[0][p].total_cnt
        ELSE ReqAt(p).gres_per_node,
        Max(PerSocketTerm(p), PerTaskTerm(p)))

\* min_gres with the first term 1 when whole_node is not set and
\* gres_per_node is 0
FlooredMinGres(p) ==
    Max(IF job.filter.whole_node THEN entry[0][p].total_cnt
        ELSE IF ReqAt(p).gres_per_node # 0 THEN ReqAt(p).gres_per_node
        ELSE 1,
        Max(PerSocketTerm(p), PerTaskTerm(p)))

\* record p ends below m units
EndsBelow(p, m) ==
    \/ sock_gres_list[0][p].total_cnt < m
    \/ /\ 0 < sock_gres_list[0][p].max_node_gres
       /\ sock_gres_list[0][p].max_node_gres < m

\* C8: whenever the filter returns -1, total_cnt, max_node_gres and
\* cnt_by_sock of every record of the node equal their values on entry
C8_RejectLeavesRecords ==
    FilterRejected =>
        \A p \in 1 .. Len(entry[0]) :
            /\ sock_gres_list[0][p].total_cnt = entry[0][p].total_cnt
            /\ sock_gres_list[0][p].max_node_gres = entry[0][p].max_node_gres
            /\ sock_gres_list[0][p].cnt_by_sock = entry[0][p].cnt_by_sock

\* C9, as claimed: the filter returns -1 iff some handled request fails a
\* CPU or memory check or ends with total_cnt < min_gres or
\* 0 < max_node_gres < min_gres, min_gres the maximum of
\* (whole_node ? total_cnt : gres_per_node), gres_per_socket * sock_per_node
\* and gres_per_task * task_per_node
C9_RejectIffPlainMin ==
    FilterReturned =>
        ((flt.rc = -1) <=>
            \E p \in Handled :
                \/ TooFewCpus(p) \/ NoGresFromCores(p) \/ TooLittleMem(p)
                \/ EndsBelow(p, PlainMinGres(p)))

\* C9, amended: the same with min_gres at least 1 when whole_node is not
\* set and gres_per_node is 0
C9_RejectIffFlooredMin ==
    FilterReturned =>
        ((flt.rc = -1) <=>
            \E p \in Handled :
                \/ TooFewCpus(p) \/ NoGresFromCores(p) \/ TooLittleMem(p)
                \/ EndsBelow(p, FlooredMinGres(p)))

\* a request by gres_per_job alone was rejected for ending with no unit,
\* with no CPU or memory check failing
C9_Witness ==
    /\ FilterRejected
    /\ ~job.filter.whole_node
    /\ flt.pos = 1
    /\ ReqAt(1).gres_per_node + ReqAt(1).gres_per_socket + ReqAt(1).gres_per_task = 0
    /\ ReqAt(1).gres_per_job # 0
    /\ ~(TooFewCpus(1) \/ NoGresFromCores(1) \/ TooLittleMem(1))
    /\ sock_gres_list[0][1].total_cnt = 0

MemPairs == { <<0, 0>>, <<1, 0>>, <<0, 3>>, <<5, 1>> }

\* the requests with their memory fields replaced by f[k]
WithMemFields(f) ==
    [k \in DOMAIN gres_js |->
        [gres_js[k] EXCEPT !.mem_per_gres = f[k][1],
                           !.def_mem_per_gres = f[k][2]]]

\* C11: when avail_mem is NO_VAL64 (memory not tracked), the status,
\* avail_gpus, near_gpus and the records left by remove_unusable are those of
\* a run on the same input with any other mem_per_gres / def_mem_per_gres.
C11_MemSentinelIgnoresMemFields ==
    (FilterReturned /\ (job.filter.avail_mem = NO_VAL64)) =>
        \A f \in [DOMAIN gres_js -> MemPairs] :
            FilterRun(entry[0], WithMemFields(f), job.filter) =
                [list |-> sock_gres_list[0], rc |-> flt.rc,
                 avail_gpus |-> flt.avail_gpus, near_gpus |-> flt.near_gpus]

C11_Witness ==
    /\ FilterReturned
    /\ job.filter.avail_mem = NO_VAL64
    /\ flt.rc = 0
    /\ flt.pos = 1
    /\ ReqAt(1).mem_per_gres # 0
    /\ sock_gres_list[0] # entry[0]

\* socket s has a core of the node's core bitmap
HasAvailCore(s) ==
    \E c \in 0 .. (job.filter.cores_per_sock - 1) :
        ((s * job.filter.cores_per_sock) + c) \in job.filter.core_bitmap

\* the near count of record p: the units of the record on entry that are
\* not on a socket without available cores, at most max_node_gres when set
NearCount(p) ==
    LET base == IF entry[0][p].has_cnt_by_sock
                THEN entry[0][p].total_cnt -
                     SumOver(entry[0][p].cnt_by_sock,
                             { s \in 0 .. (job.filter.sockets - 1) : ~HasAvailCore(s) })
                ELSE entry[0][p].total_cnt
        cap == sock_gres_list[0][p].max_node_gres
    IN IF (cap # 0) /\ (cap < base) THEN cap ELSE base

\* the records of sharing kinds that the loop handled without rejecting
CountedSharing ==
    { p \in Handled : /\ ReqAt(p).plugin_sharing
                      /\ ~((flt.rc = -1) /\ (p = flt.pos)) }

\* C12: near_gpus never exceeds 255, and when remove_unusable returns it is
\* the smaller of 255 and the sum of the near counts of the sharing-kind
\* requests counted.
C12_NearGpusSaturates ==
    /\ flt.near_gpus <= NEAR_GPUS_MAX
    /\ FilterReturned =>
          (flt.near_gpus =
              Min(NEAR_GPUS_MAX,
                  SumOver([p \in CountedSharing |-> NearCount(p)], CountedSharing)))

\* three sharing kinds were counted and their near counts exceed 255
C12_Witness ==
    /\ FilterReturned
    /\ flt.rc = 0
    /\ Cardinality(CountedSharing) = 3
    /\ SumOver([p \in CountedSharing |-> NearCount(p)], CountedSharing) > NEAR_GPUS_MAX
    /\ flt.near_gpus = NEAR_GPUS_MAX

\* the units of record p on entry that are on sockets without available cores
DeadUnits(p) ==
    SumOver(entry[0][p].cnt_by_sock,
            { s \in 0 .. (job.filter.sockets - 1) : ~HasAvailCore(s) })

\* total_cnt after the memory cap of request p, when memory is tracked
MemCapped(p, cnt) ==
    LET m == IF ReqAt(p).mem_per_gres # 0 THEN ReqAt(p).mem_per_gres
             ELSE ReqAt(p).def_mem_per_gres
    IN IF (m # 0) /\ (job.filter.avail_mem # NO_VAL64)
       THEN Min(cnt, job.filter.avail_mem \div m)
       ELSE cnt

\* C13: with enforce_binding, after remove_unusable returns 0 every record
\* with cnt_by_sock has cnt_by_sock[s] = 0 on each socket without an
\* available core, keeps cnt_by_sock[s] on the other sockets, and its
\* total_cnt is the entry total_cnt less the zeroed entries (then capped by
\* memory when memory is tracked).
C13_PruneUnderBinding ==
    (FilterReturned /\ (flt.rc = 0) /\ job.filter.enforce_binding) =>
        \A p \in Handled :
            entry[0][p].has_cnt_by_sock =>
                /\ \A s \in 0 .. (job.filter.sockets - 1) :
                      sock_gres_list[0][p].cnt_by_sock[s] =
                          IF HasAvailCore(s) THEN entry[0][p].cnt_by_sock[s]
                          ELSE 0
                /\ sock_gres_list[0][p].total_cnt =
                      MemCapped(p, entry[0][p].total_cnt - DeadUnits(p))

\* a feasible node where units of a socket without cores were removed
C13_Witness ==
    /\ FilterReturned
    /\ flt.rc = 0
    /\ job.filter.enforce_binding
    /\ flt.pos >= 1
    /\ entry[0][1].has_cnt_by_sock
    /\ DeadUnits(1) > 0
    /\ sock_gres_list[0][1].total_cnt = entry[0][1].total_cnt - DeadUnits(1)
    /\ sock_gres_list[0][1].total_cnt > 0

\* C14: if the per-node or per-task shared picker fails on a node, no later
\* node is given to _select_and_set_node and select_and_set returns a status
\* other than SLURM_SUCCESS.
C14_SharedFailureStops ==
    (sel.pc # "idle") =>
        ((sel.shared_failed # -1) =>
            /\ sel.last_node = sel.shared_failed
            /\ Returned => (sel.rc # "SLURM_SUCCESS"))

\* C15: when pass 1 leaves a gres_per_job counter unmet, the function
\* returns ESLURM_NODE_NOT_AVAIL if and only if some per-job request still
\* has total_gres < gres_per_job when it returns
C15_NodeNotAvailIffUnmet ==
    (Returned /\ sel.unmet_pass1) =>
        ((sel.rc = "ESLURM_NODE_NOT_AVAIL") <=> PerJobUnmet)

NextRecord == sock_gres_list[sel.job_node_inx][sel.pos + 1]

\* the step is a call of _select_and_set_node on a shared request and a
\* node with topology that reached the picker dispatch
SharedDispatchStep ==
    /\ sel.pc = "node"
    /\ sel.pos < Len(sock_gres_list[sel.job_node_inx])
    /\ sel'.pc = "node"
    /\ sel'.pos = sel.pos + 1
    /\ sel'.i = sel.i
    /\ ~sel'.hung
    /\ gres_js[NextRecord.js].config_shared
    /\ gres_ns[sel.i][NextRecord.js].topo_cnt # 0
    /\ ~(sel'.has_used /\ (sel'.used_sock_cnt = 0))

\* tasks of the job on node n
TasksOnNode(n) == SumOver(sel'.tasks_per_node_socket[n], Sockets)

\* C17: a call on a shared request and a node with topology runs the
\* per-node shared picker when gres_per_node is set (on success
\* gres_per_node shares are selected), else the per-task shared picker when
\* gres_per_task is set (on success gres_per_task shares per task), and
\* otherwise selects nothing on the node and sets ESLURM_INVALID_GRES.
C17_SharedDispatch ==
    [][SharedDispatchStep =>
         LET k == NextRecord.js
             n == sel.i
         IN IF gres_js[k].gres_per_node # 0
            THEN /\ sel'.rc \in {"SLURM_SUCCESS", "ESLURM_INVALID_GRES"}
                 /\ (sel'.rc = "SLURM_SUCCESS") =>
                        (gres_js'[k].gres_cnt_node_select[n] =
                             gres_js[k].gres_per_node)
            ELSE IF gres_js[k].gres_per_task # 0
            THEN /\ sel'.rc \in {"SLURM_SUCCESS", "ESLURM_INVALID_GRES"}
                 /\ (sel'.rc = "SLURM_SUCCESS") =>
                        (gres_js'[k].gres_cnt_node_select[n] =
                             gres_js[k].gres_per_task * TasksOnNode(n))
            ELSE /\ sel'.rc = "ESLURM_INVALID_GRES"
                 /\ gres_js'[k].gres_bit_select[n] = {}
                 /\ gres_js'[k].gres_cnt_node_select[n] = 0
                 /\ \A t \in Units : gres_js'[k].gres_per_bit_select[n][t] = 0
      ]_vars

\* a shared request with only gres_per_socket or gres_per_job set was
\* handled on a node with topology
C17_Witness ==
    /\ Returned
    /\ Len(gres_js) = 1
    /\ gres_js[1].config_shared
    /\ gres_js[1].gres_per_node = 0
    /\ gres_js[1].gres_per_task = 0
    /\ gres_js[1].gres_per_socket # 0
    /\ gres_js[1].has_cnt_node_select
    /\ sel.rc = "ESLURM_INVALID_GRES"

\* the step is a call of _select_and_set_node on a node whose kind has no
\* topology that got past the used-core counts
NoTopoStep ==
    /\ sel.pc = "node"
    /\ sel.pos < Len(sock_gres_list[sel.job_node_inx])
    /\ sel'.pc = "node"
    /\ sel'.pos = sel.pos + 1
    /\ sel'.i = sel.i
    /\ ~sel'.hung
    /\ gres_ns[sel.i][NextRecord.js].topo_cnt = 0
    /\ ~(sel'.has_used /\ (sel'.used_sock_cnt = 0))

\* the count the governing counter of request js gives on node n, total
\* being total_gres before the node's count is added; the per-job value is
\* capped by what is free on the node and by what is still needed less one
\* unit for each later node (unsigned arithmetic)
GoverningCnt(js, n, k, total) ==
    IF js.gres_per_node # 0 THEN js.gres_per_node
    ELSE IF js.gres_per_socket # 0
    THEN U64(js.gres_per_socket * sel'.used_sock_cnt)
    ELSE IF js.gres_per_task # 0
    THEN U64(js.gres_per_task * TasksOnNode(n))
    ELSE Min(U64(gres_ns[n][k].gres_cnt_avail - gres_ns[n][k].gres_cnt_alloc),
             U64(js.gres_per_job - total - (sel.rem_node_cnt - 1)))

\* C18: on a node whose kind has no topology a call sets
\* gres_cnt_node_select[n] from the first counter set among gres_per_node,
\* gres_per_socket * used_sock_cnt, gres_per_task * tasks on the node and
\* the capped per-job value, adds it to total_gres (which restarts from 0
\* at the first node), and leaves gres_bit_select of that node as it was.
C18_NoTopoCount ==
    [][NoTopoStep =>
         LET k == NextRecord.js
             n == sel.i
             total == IF n = FirstNode THEN 0 ELSE gres_js[k].total_gres
         IN /\ (gres_js[k].gres_per_node + gres_js[k].gres_per_socket +
                 gres_js[k].gres_per_task + gres_js[k].gres_per_job > 0) =>
                   /\ gres_js'[k].gres_cnt_node_select[n] =
                          GoverningCnt(gres_js[k], n, k, total)
                   /\ gres_js'[k].total_gres =
                          total + gres_js'[k].gres_cnt_node_select[n]
            /\ gres_js'[k].gres_bit_select[n] = gres_js[k].gres_bit_select[n]
            /\ gres_js'[k].bit_select_nodes = gres_js[k].bit_select_nodes
      ]_vars

\* a request with gres_per_socket and gres_per_task set and gres_per_node
\* not set got gres_per_socket * used_sock_cnt on a node without topology
C18_Witness ==
    /\ Succeeded
    /\ Len(gres_js) = 1
    /\ gres_ns[0][1].topo_cnt = 0
    /\ gres_js[1].gres_per_node = 0
    /\ gres_js[1].gres_per_socket # 0
    /\ gres_js[1].gres_per_task # 0
    /\ gres_js[1].gres_cnt_node_select[0] =
           gres_js[1].gres_per_socket * Cardinality(CoreSockets(0))
    /\ gres_js[1].gres_cnt_node_select[0] #
           gres_js[1].gres_per_task * Cardinality(CoreSockets(0))
    /\ gres_js[1].bit_select_nodes = {}

(***************************************************************************)
(* Properties of _pick_gres_topo                                           *)
(***************************************************************************)

PickDone == sel.pc = "done"

\* the units the call may take: on the socket asked for, not held by the
\* job on the node and not allocated to another job
EligibleAtCall ==
    SockBits(sock_gres_list[0][1], sel.socket_index) \
        (sel.pre \cup gres_ns[0][1].gres_bit_alloc)

\* the units held by the job before the j-th pick of the call
ChosenBefore(j) == sel.pre \cup { sel.order[i] : i \in 1 .. (j - 1) }

\* link count of unit c to the units of chosen
AccLinks(c, chosen) ==
    SumOver([g \in Units |-> gres_ns[0][1].links_cnt[g][c]], chosen \ {c})

\* C19: with link information in use, every unit picked after the first
\* pick of a call has, among the units still eligible on the socket, a
\* greatest link count to the units already chosen.
C19_NextPickBestLinked ==
    (PickDone /\ (gres_ns[0][1].link_len = NumGres)) =>
        \A j \in 2 .. Len(sel.order) :
            \A c \in EligibleAtCall \ ChosenBefore(j) :
                AccLinks(sel.order[j], ChosenBefore(j)) >=
                    AccLinks(c, ChosenBefore(j))

\* C20: a call asked for k units on a socket (or ANY) selects
\* min(k, eligible units of that socket) units, with or without links.
C20_PickTakesAllEligible ==
    PickDone =>
        (sel.got = Min(sel.gres_needed, Cardinality(EligibleAtCall)))

(***************************************************************************)
(* Properties of the by-job selection                                      *)
(***************************************************************************)

\* the step is a call of _select_and_set_node that ran _set_job_bits1: a
\* non-shared request with only gres_per_job set, on a node with topology
Pass1Step ==
    /\ sel.pc = "node"
    /\ sel.pos < Len(sock_gres_list[sel.job_node_inx])
    /\ sel'.pc = "node"
    /\ sel'.pos = sel.pos + 1
    /\ sel'.i = sel.i
    /\ ~sel'.hung
    /\ gres_ns[sel.i][NextRecord.js].topo_cnt # 0
    /\ ~gres_js[NextRecord.js].config_shared
    /\ gres_js[NextRecord.js].gres_per_node = 0
    /\ gres_js[NextRecord.js].gres_per_socket = 0
    /\ gres_js[NextRecord.js].gres_per_task = 0
    /\ gres_js[NextRecord.js].gres_per_job # 0
    /\ ~(sel'.has_used /\ (sel'.used_sock_cnt = 0))

\* total_gres of the request as _set_job_bits1 starts from it
Pass1Total == IF sel.i = FirstNode THEN 0 ELSE gres_js[NextRecord.js].total_gres

\* max_gres of the call: what is still needed less one unit for each
\* later node, capped by the CPUs of the node
Pass1MaxGres ==
    JobMaxGres([gres_js[NextRecord.js] EXCEPT !.total_gres = Pass1Total],
               job.mc, sel.rem_node_cnt, job.tpc, sel'.used_core_cnt)

\* the free units of the sockets with allocated cores and of ANY
Pass1Near ==
    (UNION { NextRecord.bits_by_sock[s] :
               s \in { t \in Sockets : sel'.used_cores_on_sock[t] # 0 } }
       \cup NextRecord.bits_any_sock)
        \ gres_ns[sel.i][NextRecord.js].gres_bit_alloc

\* the free units of the sockets without allocated cores
Pass1Far ==
    UNION { NextRecord.bits_by_sock[s] :
              s \in { t \in Sockets : sel'.used_cores_on_sock[t] = 0 } }
        \ gres_ns[sel.i][NextRecord.js].gres_bit_alloc

\* the units chosen on the node by the call
Pass1Chosen == gres_js'[NextRecord.js].gres_bit_select[sel.i]

\* unit b is the lower index of a pair of units of P with the greatest
\* links_cnt
LowerOfBestPair(b, P) ==
    \E g \in P :
        /\ b < g
        /\ \A x, y \in P :
              (x < y) => (gres_ns[sel.i][NextRecord.js].links_cnt[x][y] <=
                          gres_ns[sel.i][NextRecord.js].links_cnt[b][g])

C22_OneUnitPerNode ==
    [][(Pass1Step /\ (Pass1Near \cup Pass1Far # {})) =>
         /\ Pass1Chosen # {}
         /\ gres_js'[NextRecord.js].gres_cnt_node_select[sel.i] >= 1
      ]_vars

\* gres_per_job = 1 on two nodes: the second node gets a unit although the
\* request was met on the first
C22_Witness ==
    /\ Returned
    /\ Len(gres_js) = 1
    /\ job.job_resrcs.nhosts = 2
    /\ gres_js[1].gres_per_job = 1
    /\ gres_ns[0][1].topo_cnt # 0
    /\ gres_ns[1][1].topo_cnt # 0
    /\ Cardinality(gres_js[1].gres_bit_select[0]) = 1
    /\ Cardinality(gres_js[1].gres_bit_select[1]) = 1

\* C23: by-job pass 1 chooses a unit of a socket without allocated cores
\* only when no unit of the allocated sockets and of ANY was free, and then
\* at most one such unit on the node.
C23_FarSocketLastResort ==
    [][(Pass1Step /\ (Pass1Chosen \cap (Pass1Far \ Pass1Near) # {})) =>
         /\ Pass1Near = {}
         /\ Cardinality(Pass1Chosen) = 1
      ]_vars

\* the only free units of the node were on the socket without allocated
\* cores, and one of them was chosen
C23_Witness ==
    /\ Returned
    /\ Len(gres_js) = 1
    /\ gres_js[1].gres_per_job = 2
    /\ gres_ns[0][1].topo_cnt # 0
    /\ CoreSockets(0) = {0}
    /\ Cardinality(sock_gres_list[0][1].bits_by_sock[1] \
                       gres_ns[0][1].gres_bit_alloc) >= 2
    /\ (sock_gres_list[0][1].bits_by_sock[0] \cup
           sock_gres_list[0][1].bits_any_sock) \subseteq
              gres_ns[0][1].gres_bit_alloc
    /\ Cardinality(gres_js[1].gres_bit_select[0]) = 1
    /\ gres_js[1].gres_bit_select[0] \subseteq
           sock_gres_list[0][1].bits_by_sock[1]

\* the step is a call of _set_job_bits2 in pass 2
Pass2Step ==
    /\ sel.pc = "pass2"
    /\ sel.pos < Len(sock_gres_list[sel.job_node_inx])
    /\ sel'.pos = sel.pos + 1

\* C24: a call of by-job pass 2 leaves a request that has
\* total_gres >= gres_per_job as it is, never takes total_gres beyond
\* gres_per_job and touches the selection of its own node only; when every
\* request of a node reported satisfied the function returns, and nothing
\* is selected after the return.
C24_Pass2StopsWhenSatisfied ==
    [][/\ Pass2Step =>
            /\ (gres_js[NextRecord.js].total_gres >=
                    gres_js[NextRecord.js].gres_per_job) =>
                   (gres_js' = gres_js)
            /\ (gres_js[NextRecord.js].total_gres <
                    gres_js[NextRecord.js].gres_per_job) =>
                   (gres_js'[NextRecord.js].total_gres <=
                       gres_js[NextRecord.js].gres_per_job)
            /\ \A k \in Kinds : \A m \in Nodes \ {sel.i} :
                   gres_js'[k].gres_bit_select[m] =
                       gres_js[k].gres_bit_select[m]
       /\ ((sel.pc = "pass2") /\ ~Pass2Step /\ (sel.job_fini = 1)) =>
              (sel'.pc = "returned")
       /\ Returned => (gres_js' = gres_js)
      ]_vars

\* pass 1 took the free unit next to the allocated cores and pass 2 added
\* one unit of the other socket to reach gres_per_job = 2
C24_Witness ==
    /\ Succeeded
    /\ Len(gres_js) = 1
    /\ job.job_resrcs.nhosts = 1
    /\ gres_js[1].gres_per_job = 2
    /\ gres_js[1].total_gres = 2
    /\ CoreSockets(0) = {0}
    /\ Cardinality(sock_gres_list[0][1].bits_by_sock[1] \
                       gres_ns[0][1].gres_bit_alloc) = 2
    /\ Cardinality(gres_js[1].gres_bit_select[0] \cap
                       sock_gres_list[0][1].bits_by_sock[1]) = 1
    /\ Cardinality(gres_js[1].gres_bit_select[0]) = 2

\* the value the _set_job_bits1 call of the step returned: 1 when the
\* request has reached gres_per_job, else 0
Pass1Result ==
    IF gres_js'[NextRecord.js].total_gres >=
           gres_js'[NextRecord.js].gres_per_job
    THEN 1 ELSE 0

\* C25: job_fini starts at -1; in the node loop only a by-job pass 1 call
\* changes it, taking the call's result unless job_fini is 0 already, so it
\* stays 0 once a call returned 0; pass 2 is entered after the node loop
\* if and only if job_fini is 0.
C25_JobFiniSticky ==
    [][/\ (sel.pc = "enter") => (sel.job_fini = -1) /\ (sel'.job_fini = -1)
       /\ (sel.pc = "node") =>
              (sel'.job_fini = IF Pass1Step /\ (sel.job_fini # 0)
                               THEN Pass1Result ELSE sel.job_fini)
       /\ (sel.pc = "after") =>
              ((sel'.pc = "pass2") <=> (sel.job_fini = 0))
       /\ (sel.pc = "after") => (sel'.pc \in {"pass2", "returned"})
      ]_vars

\* pass 2 is entered although the request was met on the second node: the
\* call on the first node had returned 0
C25_Witness ==
    /\ sel.pc = "pass2"
    /\ sel.i = 0
    /\ sel.pos = 0
    /\ Len(gres_js) = 1
    /\ job.job_resrcs.nhosts = 2
    /\ gres_js[1].gres_per_job = 2
    /\ gres_js[1].total_gres = 2
    /\ gres_js[1].gres_cnt_node_select[0] = 1
    /\ gres_js[1].gres_cnt_node_select[1] = 1

(***************************************************************************)
(* Properties of _get_job_cnt                                              *)
(***************************************************************************)

\* C26: for a per-job request on a node without topology the count is
\* min(gres_cnt_avail - gres_cnt_alloc,
\*     gres_per_job - total_gres - (rem_node_cnt - 1)) and never exceeds
\* the unmet amount gres_per_job - total_gres, also when that amount is
\* below rem_node_cnt - 1.
C26_JobCntCapped ==
    (sel.pc = "done") =>
        /\ gres_js[1].gres_cnt_node_select[0] =
               Min(gres_ns[0][1].gres_cnt_avail - gres_ns[0][1].gres_cnt_alloc,
                   gres_js[1].gres_per_job - gres_js[1].total_gres -
                       (sel.rem_node_cnt - 1))
        /\ gres_js[1].gres_cnt_node_select[0] <=
               Max(gres_js[1].gres_per_job - gres_js[1].total_gres, 0)

(***************************************************************************)
(* Properties of the by-socket selection                                   *)
(***************************************************************************)

\* the step is a call of _select_and_set_node that ran _set_sock_bits: a
\* non-shared request with gres_per_socket set and gres_per_node not set,
\* on a node with topology
SockStep ==
    /\ sel.pc = "node"
    /\ sel.pos < Len(sock_gres_list[sel.job_node_inx])
    /\ sel'.pc = "node"
    /\ sel'.pos = sel.pos + 1
    /\ sel'.i = sel.i
    /\ ~sel'.hung
    /\ gres_ns[sel.i][NextRecord.js].topo_cnt # 0
    /\ ~gres_js[NextRecord.js].config_shared
    /\ gres_js[NextRecord.js].gres_per_node = 0
    /\ gres_js[NextRecord.js].gres_per_socket # 0
    /\ ~(sel'.has_used /\ (sel'.used_sock_cnt = 0))

\* the job asks for fewer sockets per node than have allocated cores, and
\* the node has gres_bit_alloc and the record bits_by_sock
FewerSocketsAsked ==
    /\ job.mc.sockets_per_node # 0
    /\ job.mc.sockets_per_node < sel'.used_sock_cnt
    /\ gres_ns[sel.i][NextRecord.js].has_bit_alloc
    /\ \E s \in Sockets : NextRecord.bits_by_sock[s] # {}

\* the sockets a unit of which was chosen on the node by the call
SocketsServed ==
    { s \in Sockets :
        gres_js'[NextRecord.js].gres_bit_select[sel.i] \cap
            NextRecord.bits_by_sock[s] # {} }

\* C27: in by-socket selection, when the job asks for fewer sockets per
\* node than have allocated cores, sockets are dropped until
\* sockets_per_node are left and units are chosen for these only: at most
\* sockets_per_node sockets are served and at most
\* sockets_per_node * gres_per_socket units chosen.
C27_DropsToSocketsPerNode ==
    [][(SockStep /\ FewerSocketsAsked) =>
         /\ Cardinality(SocketsServed) <= job.mc.sockets_per_node
         /\ Cardinality(gres_js'[NextRecord.js].gres_bit_select[sel.i]) <=
                job.mc.sockets_per_node *
                    gres_js[NextRecord.js].gres_per_socket
      ]_vars

(***************************************************************************)
(* Properties of the shared pickers                                        *)
(***************************************************************************)

\* the shares requested on node n by the shared request k of the step
SharedAmount(k, n) ==
    IF gres_js[k].gres_per_node # 0 THEN gres_js[k].gres_per_node
    ELSE gres_js[k].gres_per_task * TasksOnNode(n)

\* the slots of node n that hold shares of request k after the step
SlotsDrawn(k, n) ==
    { t \in Units : gres_js'[k].gres_per_bit_select[n][t] > 0 }

\* C28: without MULTIPLE_SHARING_GRES_PJ a successful per-node or per-task
\* shared request on a node is drawn from exactly one topology slot, which
\* holds the whole amount (gres_per_node, or gres_per_task times the tasks
\* on the node); a failed one has drawn nothing.
C28_OneSlotHoldsAll ==
    [][(/\ SharedDispatchStep
        /\ ~job.conf.multiple_sharing_gres_pj
        /\ ((gres_js[NextRecord.js].gres_per_node # 0) \/
            (gres_js[NextRecord.js].gres_per_task # 0))) =>
         LET k == NextRecord.js
             n == sel.i
         IN /\ (sel'.rc = "SLURM_SUCCESS") =>
                  /\ Cardinality(SlotsDrawn(k, n)) = 1
                  /\ \A t \in SlotsDrawn(k, n) :
                        gres_js'[k].gres_per_bit_select[n][t] =
                            SharedAmount(k, n)
            /\ (sel'.rc = "ESLURM_INVALID_GRES") => (SlotsDrawn(k, n) = {})
      ]_vars

\* without MULTIPLE_SHARING_GRES_PJ a per-task request for two tasks was
\* served from one slot although another slot had a free share too
C28_Witness ==
    /\ Succeeded
    /\ ~job.conf.multiple_sharing_gres_pj
    /\ Len(gres_js) = 1
    /\ gres_js[1].config_shared
    /\ gres_js[1].gres_per_task = 1
    /\ \E t \in Units :
          /\ gres_js[1].gres_per_bit_select[0][t] = 2
          /\ \A u \in Units \ {t} : gres_js[1].gres_per_bit_select[0][u] = 0
          /\ \E u \in Units \ {t} :
                /\ u < t
                /\ gres_ns[0][1].topo_gres_cnt_avail[u] >
                       gres_ns[0][1].topo_gres_cnt_alloc[u]

\* the slots the per-node shared picker of the step may draw from: those of
\* the sockets with used cores, those of no socket and, without
\* enforce_binding, those of the other sockets
SlotsInReach ==
    NextRecord.bits_any_sock \cup
    UNION { NextRecord.bits_by_sock[s] :
              s \in { u \in 0 .. (NextRecord.sock_cnt - 1) :
                        (sel'.used_cores_on_sock[u] # 0) \/ ~job.enforce_bind } }

\* the shares of slot t of node n the request k of the step may take
SharesOpen(k, n, t) ==
    IF /\ t \in SlotsInReach
       /\ gres_ns[n][k].has_topo_cnts
       /\ (gres_js[k].type_id = 0) \/
          (gres_js[k].type_id = gres_ns[n][k].topo_type_id[t])
       /\ ~(gres_ns[n][k].use_busy_dev /\
            (gres_ns[n][k].topo_gres_cnt_alloc[t] = 0))
    THEN gres_ns[n][k].topo_gres_cnt_avail[t] -
         gres_ns[n][k].topo_gres_cnt_alloc[t]
    ELSE 0

\* part of gres_per_node stays unmet: no single slot holds it and, with
\* MULTIPLE_SHARING_GRES_PJ, the slots together do not hold it either
PerNodeUnmet(k, n) ==
    IF job.conf.multiple_sharing_gres_pj
    THEN SumOver([t \in Units |-> SharesOpen(k, n, t)], Units) <
             gres_js[k].gres_per_node
    ELSE \A t \in Units : SharesOpen(k, n, t) < gres_js[k].gres_per_node

\* C29: the per-node shared picker returns ESLURM_INVALID_GRES exactly when
\* part of gres_per_node is unmet after the single-device pass and, only
\* with MULTIPLE_SHARING_GRES_PJ, the multi-device pass; on success
\* gres_cnt_node_select[n] equals gres_per_node.
C29_InvalidIffUnmet ==
    [][(SharedDispatchStep /\ (gres_js[NextRecord.js].gres_per_node # 0)) =>
         LET k == NextRecord.js
             n == sel.i
         IN /\ (sel'.rc = "ESLURM_INVALID_GRES") <=> PerNodeUnmet(k, n)
            /\ (sel'.rc # "ESLURM_INVALID_GRES") =>
                  /\ sel'.rc = "SLURM_SUCCESS"
                  /\ gres_js'[k].gres_cnt_node_select[n] =
                         gres_js[k].gres_per_node
      ]_vars

\* with MULTIPLE_SHARING_GRES_PJ a per-node request no single slot could
\* hold was met from two slots
C29_Witness ==
    /\ Succeeded
    /\ job.conf.multiple_sharing_gres_pj
    /\ Len(gres_js) = 1
    /\ gres_js[1].config_shared
    /\ gres_js[1].gres_per_node = 3
    /\ gres_js[1].gres_cnt_node_select[0] = 3
    /\ Cardinality({ t \in Units :
                       gres_js[1].gres_per_bit_select[0][t] > 0 }) = 2

FlaggedSock(k, n) ==
    IF gres_js[k].gres_per_node # 0 THEN sel'.used_cores_on_sock
    ELSE sel'.tasks_per_node_socket[n]

\* the slots looked at by pass i of _pick_shared_gres: passes 0 ..
\* NumSock - 1 are the flagged sockets, pass NumSock is ANY, the later
\* passes are the sockets not flagged (none under enforce_binding)
PassBits(k, n, i) ==
    IF i < NumSock
    THEN (IF (i < NextRecord.sock_cnt) /\ (FlaggedSock(k, n)[i] # 0)
          THEN NextRecord.bits_by_sock[i] ELSE {})
    ELSE IF i = NumSock THEN NextRecord.bits_any_sock
    ELSE (IF /\ (i - NumSock - 1) < NextRecord.sock_cnt
             /\ FlaggedSock(k, n)[i - NumSock - 1] = 0
             /\ ~job.enforce_bind
          THEN NextRecord.bits_by_sock[i - NumSock - 1] ELSE {})

\* slot t can hold the whole need of the single-device call of the step
SlotEligible(k, n, t) ==
    /\ gres_ns[n][k].has_topo_cnts
    /\ (gres_js[k].type_id = 0) \/
       (gres_js[k].type_id = gres_ns[n][k].topo_type_id[t])
    /\ ~(gres_ns[n][k].use_busy_dev /\
         (gres_ns[n][k].topo_gres_cnt_alloc[t] = 0))
    /\ gres_ns[n][k].topo_gres_cnt_avail[t] -
       gres_ns[n][k].topo_gres_cnt_alloc[t] >= SharedAmount(k, n)

\* free shares of slot t scaled by the shares of the node, over the shares
\* of the slot, in integers
LoadRatio(k, n, t) ==
    ((gres_ns[n][k].topo_gres_cnt_avail[t] -
      gres_ns[n][k].topo_gres_cnt_alloc[t]) * gres_ns[n][k].gres_cnt_avail)
        \div gres_ns[n][k].topo_gres_cnt_avail[t]

\* the first pass of the step that finds an eligible slot
DrawingPass(k, n) ==
    CHOOSE i \in 0 .. (2 * NumSock) :
        /\ \E t \in PassBits(k, n, i) : SlotEligible(k, n, t)
        /\ \A j \in 0 .. (i - 1) :
              \A t \in PassBits(k, n, j) : ~SlotEligible(k, n, t)

\* C31: with LL_SHARED_GRES the slot drawn in a socket pass (or the ANY
\* pass) of the shared picker is an eligible slot of that pass with the
\* greatest integer ratio (avail - alloc) * gres_cnt_avail / avail: no
\* eligible slot of the pass with a strictly greater ratio is left behind.
C31_LeastLoadedFirst ==
    [][(/\ SharedDispatchStep
        /\ job.conf.ll_shared_gres
        /\ ~job.conf.multiple_sharing_gres_pj
        /\ ((gres_js[NextRecord.js].gres_per_node # 0) \/
            (gres_js[NextRecord.js].gres_per_task # 0))
        /\ sel'.rc = "SLURM_SUCCESS") =>
         LET k == NextRecord.js
             n == sel.i
         IN \A t \in SlotsDrawn(k, n) :
               /\ t \in PassBits(k, n, DrawingPass(k, n))
               /\ \A u \in PassBits(k, n, DrawingPass(k, n)) :
                     SlotEligible(k, n, u) =>
                         (LoadRatio(k, n, u) <= LoadRatio(k, n, t))
      ]_vars

\* with LL_SHARED_GRES a request of one share was drawn from a slot with
\* nothing allocated although a slot of lower index on the same socket,
\* half allocated, could hold it
C31_Witness ==
    /\ Succeeded
    /\ job.conf.ll_shared_gres
    /\ ~job.conf.multiple_sharing_gres_pj
    /\ Len(gres_js) = 1
    /\ gres_js[1].config_shared
    /\ gres_js[1].gres_per_node = 1
    /\ gres_ns[0][1].topo_gres_cnt_avail[0] = 2
    /\ gres_ns[0][1].topo_gres_cnt_alloc[0] = 1
    /\ \E t \in Units \ {0} :
          /\ gres_js[1].gres_per_bit_select[0][t] = 1
          /\ gres_ns[0][1].topo_gres_cnt_alloc[t] = 0
          /\ \E s \in Sockets :
                {0, t} \subseteq sock_gres_list[0][1].bits_by_sock[s]

\* the slots of the flagged sockets and of no socket, for the calls of
\* _pick_shared_gres of the step (a per-task picker with
\* MULTIPLE_SHARING_GRES_PJ flags one socket that has a task per call)
SlotsBound(k, n) ==
    NextRecord.bits_any_sock \cup
    UNION { NextRecord.bits_by_sock[s] :
              s \in { u \in 0 .. (NextRecord.sock_cnt - 1) :
                        FlaggedSock(k, n)[u] # 0 } }

\* C32: the shared picker tries the flagged sockets in ascending index, then
\* ANY, then the sockets not flagged, each only while need remains, and
\* never the last under enforce_binding: a single-device call draws from
\* the first pass that has a slot able to hold the need, and under
\* enforce_binding no slot outside the flagged sockets and ANY is drawn.
C32_ThreeOrderedPasses ==
    [][(/\ SharedDispatchStep
        /\ ((gres_js[NextRecord.js].gres_per_node # 0) \/
            (gres_js[NextRecord.js].gres_per_task # 0))) =>
         LET k == NextRecord.js
             n == sel.i
         IN /\ job.enforce_bind => (SlotsDrawn(k, n) \subseteq SlotsBound(k, n))
            /\ (~job.conf.multiple_sharing_gres_pj /\
                (sel'.rc = "SLURM_SUCCESS")) =>
                  \A t \in SlotsDrawn(k, n) :
                     /\ t \in PassBits(k, n, DrawingPass(k, n))
                     /\ \A j \in 0 .. (DrawingPass(k, n) - 1) :
                           \A u \in PassBits(k, n, j) : ~SlotEligible(k, n, u)
      ]_vars

\* under enforce_binding a per-node request of one share failed with
\* nothing drawn although a slot on a socket without used cores was free
C32_Witness ==
    /\ Returned
    /\ sel.rc = "ESLURM_INVALID_GRES"
    /\ job.enforce_bind
    /\ Len(gres_js) = 1
    /\ gres_js[1].config_shared
    /\ gres_js[1].gres_per_node = 1
    /\ ~gres_ns[0][1].use_busy_dev
    /\ \A t \in Units : gres_js[1].gres_per_bit_select[0][t] = 0
    /\ \E s \in Sockets, t \in Units :
          /\ sel.used_cores_on_sock[s] = 0
          /\ t \in sock_gres_list[0][1].bits_by_sock[s]
          /\ gres_ns[0][1].topo_gres_cnt_avail[t] >
                 gres_ns[0][1].topo_gres_cnt_alloc[t]

(***************************************************************************)
(* Properties of the task layout builder                                   *)
(***************************************************************************)

\* the builder returned
BuildDone == sel.pc = "done"

\* tasks placed so far
PlacedTasks ==
    SumOver([n \in Nodes |-> SumOver(sel.tasks[n], Sockets)], Nodes)

\* the step-by-step builder ends with the array of BuildTasksPerNodeSock
BuildAgrees ==
    BuildDone =>
        (sel.tasks = BuildTasksPerNodeSock(job.job_resrcs, job.overcommit,
                                           job.mc, job.tpc).tasks)

\* C33: at every point of the forward pass and of the overcommit pass
\* rem_tasks equals ntasks_per_job less the tasks placed in
\* tasks_per_node_socket, the cuts to the node and socket caps and the
\* default of one task included.
C33_RemTasksIsRemainder ==
    sel.rem_tasks = job.mc.ntasks_per_job - PlacedTasks

\* the forward pass is over after a node was cut to its cap, a socket to
\* ntasks_per_socket and a node got the default of one task, with tasks
\* left to place
C33_Witness ==
    /\ sel.pc = "over"
    /\ sel.cut_node
    /\ sel.cut_sock
    /\ sel.defaulted # {}
    /\ sel.rem_tasks > 0

\* the per-node task cap of the n-th node of the job: the first of
\* ntasks_per_node, job_res.tasks_per_node[n] and cpus_per_node /
\* cpus_per_task
NodeTaskCap(n) ==
    IF job.mc.ntasks_per_node # 0 THEN job.mc.ntasks_per_node
    ELSE IF job.job_resrcs.has_tasks_per_node /\
            (job.job_resrcs.tasks_per_node[n] # 0)
    THEN job.job_resrcs.tasks_per_node[n]
    ELSE job.job_resrcs.cpus[n] \div job.mc.cpus_per_task

\* C34: without overcommit, after the forward pass the tasks of every node
\* of the job, summed over its sockets, do not exceed the per-node task cap.
C34_NodeCapKept ==
    (BuildDone /\ ~job.overcommit) =>
        \A n \in 0 .. (job.job_resrcs.nhosts - 1) :
            SumOver(sel.tasks[n], Sockets) <= NodeTaskCap(n)

\* the forward pass is over and the overcommit pass has not begun
ForwardDone ==
    /\ sel.pc = "over"
    /\ sel.i = 0
    /\ sel.s = 0
    /\ sel.sweeps = 0
    /\ sel.rem_tasks = job.mc.ntasks_per_job - PlacedTasks

\* C35: with ntasks_per_socket set, after the forward pass no entry of
\* tasks_per_node_socket is above ntasks_per_socket.
C35_SocketCapKept ==
    (ForwardDone /\ (job.mc.ntasks_per_socket # 0)) =>
        \A n \in Nodes, s \in Sockets :
            sel.tasks[n][s] <= job.mc.ntasks_per_socket

\* the step lays tasks on the allocated core (s, c) of node i, which is not
\* skipped
CoreUsedStep ==
    /\ sel.pc = "core"
    /\ sel.s < job.job_resrcs.sock_cnt
    /\ sel.c < job.job_resrcs.cores_per_socket
    /\ ((sel.s * job.job_resrcs.cores_per_socket) + sel.c + sel.core_offset)
           \in job.job_resrcs.core_bitmap
    /\ sel.skip_cores = 0
    /\ sel'.pc \in {"core", "node"}

\* C36: with ntasks_per_core unset an allocated core that is not skipped
\* adds max(1, cpus_per_core / cpus_per_task) tasks, cpus_per_task being
\* that of the multi-core options, and when cpus_per_task > cpus_per_core
\* the next ceil(cpus_per_task / cpus_per_core) - 1 allocated cores of the
\* socket are skipped, whichever source gave the per-node task cap.
C36_TasksPerUsedCore ==
    [][(CoreUsedStep /\ (job.mc.ntasks_per_core = 0)) =>
         /\ sel'.tasks_per_node - sel.tasks_per_node =
                Max(1, job.tpc \div job.mc.cpus_per_task)
         /\ ((job.mc.cpus_per_task > job.tpc) /\ (sel'.pc = "core") /\
             (sel'.s = sel.s)) =>
                (sel'.skip_cores =
                    ((job.mc.cpus_per_task + job.tpc - 1) \div job.tpc) - 1)
      ]_vars

\* C37: the overcommit pass always terminates: it stops when rem_tasks
\* reaches 0 or when a sweep over the nodes finds no allocated core for an
\* extra task, so the builder returns.
C37_OvercommitTerminates == <>BuildDone

(***************************************************************************)
(* Further properties of gres_select_filter_remove_unusable                *)
(***************************************************************************)

\* ntasks_per_gres of the request at position p is set
NtasksPerGresSet(p) ==
    (ReqAt(p).ntasks_per_gres # 0) /\ (ReqAt(p).ntasks_per_gres # NO_VAL16)

\* units the cores of the bitmap pay for at cpus_per_gres each
GresFromCores(p) ==
    (Cardinality(job.filter.core_bitmap) * job.filter.cpus_per_core)
        \div DerivedCpusPerGres(p)

\* C38: for every request whose derived cpus_per_gres is not zero, unless
\* ntasks_per_gres is set and whole_node is true, max_gres is recomputed as
\* popcount(core_bitmap) * cpus_per_core / cpus_per_gres: the node is
\* rejected when that is 0 and otherwise max_node_gres ends no greater; so
\* too when whole_node is true and ntasks_per_gres is 0.
C38_MaxGresRecomputed ==
    (FilterReturned /\ (flt.rc = 0)) =>
        \A p \in Handled :
            ((DerivedCpusPerGres(p) # 0) /\
             ~(NtasksPerGresSet(p) /\ job.filter.whole_node)) =>
                /\ GresFromCores(p) # 0
                /\ sock_gres_list[0][p].max_node_gres # 0
                /\ sock_gres_list[0][p].max_node_gres <= GresFromCores(p)

\* the per-socket counts of record r add up to no more than its total_cnt
SockCntsWithinTotal(r) ==
    r.has_cnt_by_sock => (SumOver(r.cnt_by_sock, Sockets) <= r.total_cnt)

\* C39: if on entry every record has the sum of cnt_by_sock at most
\* total_cnt, every record has it again when the filter returns 0.
C39_SockCntsStayWithinTotal ==
    (/\ FilterReturned
     /\ flt.rc = 0
     /\ \A p \in 1 .. Len(entry[0]) : SockCntsWithinTotal(entry[0][p])) =>
        \A p \in 1 .. Len(sock_gres_list[0]) :
            SockCntsWithinTotal(sock_gres_list[0][p])

\* the sharing-kind records whose counts went into avail_gpus and near_gpus
\* without the byte saturating or the 16-bit sum wrapping
NoSaturationOrWrap ==
    /\ flt.near_gpus < NEAR_GPUS_MAX
    /\ SumOver([p \in CountedSharing |-> sock_gres_list[0][p].total_cnt],
               CountedSharing) < UINT16_MOD

\* the memory cap lowered total_cnt of record p
MemCapLowered(p) ==
    sock_gres_list[0][p].total_cnt < (entry[0][p].total_cnt -
        (IF entry[0][p].has_cnt_by_sock /\ job.filter.enforce_binding
         THEN DeadUnits(p) ELSE 0))

\* C40: when remove_unusable returns 0 and neither the 255 saturation nor a
\* 16-bit wrap occurred, the near count added for each sharing-kind request
\* is at most the final total_cnt added to avail_gpus, also when the memory
\* cap lowered total_cnt, and so near_gpus <= avail_gpus.
C40_NearWithinAvail ==
    (FilterReturned /\ (flt.rc = 0) /\ NoSaturationOrWrap) =>
        /\ \A p \in CountedSharing :
              NearCount(p) <= sock_gres_list[0][p].total_cnt
        /\ flt.near_gpus <= flt.avail_gpus

\* a sharing-kind record with units on a socket with available cores was
\* counted after the memory cap lowered its total_cnt
C40_Witness ==
    /\ FilterReturned
    /\ flt.rc = 0
    /\ NoSaturationOrWrap
    /\ \E p \in CountedSharing :
          /\ MemCapLowered(p)
          /\ NearCount(p) > 0
          /\ NearCount(p) = sock_gres_list[0][p].total_cnt
    /\ flt.near_gpus > 0

====
